---- MODULE Spec2Model ----
(***************************************************************************)
(* Curation pipeline of the GGUF model catalogue (package spam_filter):    *)
(* configuration, quantization selector, hardware calculator and the       *)
(* filtering engine.                                                       *)
(*                                                                         *)
(* Units.  File sizes are counted in MiB (fileSize = size * 2^20 bytes),   *)
(* so min_size_bytes = 100 * 1024 * 1024 is the number 100.  Fractions of  *)
(* the configuration (size_drop_threshold, ram_multiplier, ...) are kept   *)
(* as exact rationals [num, den]; the double-precision comparison of the   *)
(* code agrees with the exact one except where a relative size drop is     *)
(* exactly equal to the threshold, where the rounding of the code decides  *)
(* (DropAtThresholdExceeds).                                               *)
(***************************************************************************)
EXTENDS Integers, Sequences, FiniteSets, TLC

VARIABLES
    cfg,          \* FilterConfig of the selector / engine
    selBase,      \* select_variants_for_group: argument base_model
    selVariants,  \* argument variants (the caller's list)
    selOp,        \* which selector entry point has been called
    selResult,    \* its outcome: [raised, list]
    raw_models,   \* filter_models: the input batch
    pc,           \* the stage filter_models is about to run; "done" when it has
                  \* returned; then "raised" or "written" for what process_data
                  \* did with the result
    run,          \* 1 for the first call of filter_models on the batch, 2 for the second
    models,       \* the list handed from stage to stage
    model_groups, \* the groups built by stage 4
    report,       \* the ProcessingReport of the running call
    errors,       \* the error list of the running call
    result,       \* the FilterResult of the last finished call
    firstResult,  \* the FilterResult of the first call, once a second has started
    callModel,    \* classifier / calculator called directly: the entry passed
    callOp,       \* which method has been called on it
    callResult,   \* what the call returned
    keepVariant,  \* should_keep_variant called directly: the candidate variant
    keepKept,     \* the kept_variants list passed with it
    keepOp,       \* whether the call has been made
    keepResult    \* its decision: "true", "false" or "raise"

selVars == <<selBase, selVariants, selOp, selResult>>

pipeVars == <<raw_models, pc, run, models, model_groups, report, errors, result,
              firstResult>>

callVars == <<callModel, callOp, callResult>>

keepVars == <<keepVariant, keepKept, keepOp, keepResult>>

vars == <<cfg, selVars, pipeVars, callVars, keepVars>>

----------------------------------------------------------------------------
(* Generic helpers *)

Range(s) == {s[i] : i \in 1..Len(s)}

SeqsUpTo(S, n) == UNION {[1..k -> S] : k \in 0..n}

Last(s) == s[Len(s)]

----------------------------------------------------------------------------
(* Configuration (config.py) *)

Rat(n, d) == [num |-> n, den |-> d]

DefaultTrustedUploaders ==
    <<"TheBloke", "lmstudio", "ggml-org", "koboldai", "NousResearch", "abacaj",
      "OpenAccessAI", "microsoft", "meta-llama", "mistralai", "google", "anthropic">>

DefaultFinetunePatterns ==
    <<"instruct", "chat", "code", "alpaca", "vicuna", "wizard", "orca", "dolphin",
      "airoboros", "guanaco", "openassistant", "uncensored", "roleplay",
      "storytelling", "creative", "assistant", "helpful", "harmless", "honest">>

DefaultOsSupport == <<"Windows", "Linux", "macOS">>

\* FilterConfig(): the dataclass defaults.  Parameter thresholds in millions.
FilterConfig ==
    [ min_size_bytes             |-> 100,
      size_drop_threshold        |-> Rat(5, 100),
      min_downloads              |-> 100,
      trusted_uploaders          |-> DefaultTrustedUploaders,
      finetune_patterns          |-> DefaultFinetunePatterns,
      ram_multiplier             |-> Rat(2, 1),
      quantization_ram_reduction |-> Rat(3, 10),
      small_model_threshold      |-> 2000,
      medium_model_threshold     |-> 7000,
      large_model_threshold      |-> 13000,
      gpu_required_threshold     |-> 13000,
      default_os_support         |-> DefaultOsSupport ]

RatLt(a, b) == a.num * b.den < b.num * a.den
RatLe(a, b) == a.num * b.den <= b.num * a.den

\* FilterConfig.validate(): the list of messages, one per violated constraint
ValidateChecks(c) ==
    << <<c.min_size_bytes <= 0, "min_size_bytes must be positive">>,
       <<~(RatLt(Rat(0, 1), c.size_drop_threshold) /\ RatLt(c.size_drop_threshold, Rat(1, 1))),
         "size_drop_threshold must be between 0 and 1">>,
       <<c.min_downloads < 0, "min_downloads must be non-negative">>,
       <<c.trusted_uploaders = <<>>, "trusted_uploaders list cannot be empty">>,
       <<c.finetune_patterns = <<>>, "finetune_patterns list cannot be empty">>,
       <<~RatLt(Rat(0, 1), c.ram_multiplier), "ram_multiplier must be positive">>,
       <<~(RatLe(Rat(0, 1), c.quantization_ram_reduction)
           /\ RatLe(c.quantization_ram_reduction, Rat(1, 1))),
         "quantization_ram_reduction must be between 0 and 1">>,
       <<c.small_model_threshold <= 0, "small_model_threshold must be positive">>,
       <<c.medium_model_threshold <= c.small_model_threshold,
         "medium_model_threshold must be greater than small_model_threshold">>,
       <<c.large_model_threshold <= c.medium_model_threshold,
         "large_model_threshold must be greater than medium_model_threshold">>,
       <<c.gpu_required_threshold <= 0, "gpu_required_threshold must be positive">>,
       <<c.default_os_support = <<>>, "default_os_support list cannot be empty">> >>

\* faulty variant: validation stops at the first violated constraint
RECURSIVE CollectErrors_FirstOnly(_)
CollectErrors_FirstOnly(checks) ==
    IF checks = <<>> THEN <<>>
    ELSE IF Head(checks)[1] THEN <<Head(checks)[2]>>
    ELSE CollectErrors_FirstOnly(Tail(checks))

RECURSIVE CollectErrors(_)
CollectErrors(checks) ==
    IF checks = <<>> THEN <<>>
    ELSE (IF Head(checks)[1] THEN <<Head(checks)[2]>> ELSE <<>>)
         \o CollectErrors(Tail(checks))

validate(c) == CollectErrors(ValidateChecks(c))

----------------------------------------------------------------------------
(* GGUF file entries.  An entry carries the fields the pipeline reads:     *)
(*   modelName, quantFormat, fileSize, downloadCount and the uploader      *)
(*   segment of huggingFaceLink.  downloadCount is an integer, None or a   *)
(*   value of another type (a string), which Python cannot compare with    *)
(*   an integer.  hw is the Hardware Profile, or NoHw when absent.         *)
(*   sizeKind, nameKind and fmtKind tell what the keys fileSize, modelName *)
(*   and quantFormat hold: a value of the expected type ("int", "str"),    *)
(*   nothing ("missing": the key is absent), None ("none") or a value of   *)
(*   another type ("other").  The engine builds entries of the expected    *)
(*   types only.                                                           *)

NoHw == [present |-> FALSE, minRamGB |-> 0, minCpuCores |-> 0,
         gpuRequired |-> FALSE, osSupported |-> <<>>]

Entry(name, fmt, size, up, dlKind, dl, link) ==
    [modelName |-> name, quantFormat |-> fmt, fileSize |-> size, uploader |-> up,
     dlKind |-> dlKind, downloadCount |-> dl, directDownloadLink |-> link,
     sizeKind |-> "int", nameKind |-> "str", fmtKind |-> "str",
     hw |-> NoHw]

\* Marker for "no base model" (Python None) in select_variants_for_group
\* directDownloadLink of an entry built outside the engine
NoLink == <<"", "", "">>

NoEntry == Entry("", "", 0, "", "none", 0, NoLink)

----------------------------------------------------------------------------
(* Quantization selector (quantization_selector.py) *)

\* str.lower() on the uploader names of the model
Lower(s) ==
    CASE s = "TheBloke" -> "thebloke"
      [] s = "NousResearch" -> "nousresearch"
      [] s = "OpenAccessAI" -> "openaccessai"
      [] s = "Someone" -> "someone"
      [] OTHER -> s

\* extract_uploader_from_model_id: first path segment of huggingFaceLink
extract_uploader_from_model_id(model) == model.uploader

\* faulty variant: the uploader is compared with the list as written
is_trusted_uploader_CaseSensitive(c, model) ==
    extract_uploader_from_model_id(model) \in Range(c.trusted_uploaders)

is_trusted_uploader(c, model) ==
    Lower(extract_uploader_from_model_id(model))
        \in {Lower(u) : u \in Range(c.trusted_uploaders)}

\* model.get('downloadCount', 0): the count, 0 when the key is absent
\* (dlKind "missing"); None and values of other types are told by dlKind
DownloadCountOrZero(model) ==
    IF model.dlKind = "int" THEN model.downloadCount ELSE 0

\* meets_download_threshold: "true", "false", or "raise" (TypeError when the
\* download count is neither a number nor None)
meets_download_threshold(model, min_downloads) ==
    CASE model.dlKind \in {"none", "missing"} ->
             IF 0 >= min_downloads THEN "true" ELSE "false"
      [] model.dlKind = "int"  -> IF model.downloadCount >= min_downloads
                                  THEN "true" ELSE "false"
      [] OTHER -> "raise"

\* The double comparison 1.0 - fl(1 - t) > fl(t) for a size ratio of exactly
\* 1 - t: the quotient is rounded to the nearest double, the subtraction from
\* 1.0 is then exact, and its result lies above or at the double nearest t.
\* For t = 0.05: 1.0 - 0.95 = 0.050000000000000044 > 0.05; for t = 0.5:
\* 1.0 - 0.5 = 0.5, not above 0.5.
DropAtThresholdExceeds(threshold) ==
    CASE threshold.num * 20 = threshold.den -> TRUE
      [] threshold.num * 2 = threshold.den  -> FALSE
      [] OTHER -> FALSE

\* has_significant_size_drop: 1.0 - current/last > threshold in doubles.  Away
\* from the threshold the rounding error (below 10^-15) cannot change the
\* comparison of two ratios of file sizes; at a ratio of exactly 1 - threshold
\* the rounding decides.
has_significant_size_drop(variant, last_kept, threshold) ==
    IF last_kept.fileSize = 0 THEN TRUE
    ELSE LET drop == (last_kept.fileSize - variant.fileSize) * threshold.den
             bar == threshold.num * last_kept.fileSize
         IN  IF drop = bar THEN DropAtThresholdExceeds(threshold) ELSE drop > bar

\* str.upper() on the quantization formats of the model
Upper(s) ==
    CASE s = "Unknown" -> "UNKNOWN"
      [] s = "q4_k_m" -> "Q4_K_M"
      [] OTHER -> s

\* str.startswith between an (upper-cased) format of the model and a family format
StartsWith(s, prefix) == s = prefix

quant_families ==
    << <<"Q4", {"Q4_0", "Q4_1", "Q4_K_S", "Q4_K_M"}>>,
       <<"Q5", {"Q5_0", "Q5_1", "Q5_K_S", "Q5_K_M"}>>,
       <<"Q6", {"Q6_K"}>>,
       <<"Q8", {"Q8_0"}>>,
       <<"IQ", {"IQ1_S", "IQ2_XXS", "IQ3_XXS", "IQ4_XS"}>>,
       <<"F16", {"F16", "BF16"}>>,
       <<"Q2", {"Q2_K"}>>,
       <<"Q3", {"Q3_K_S", "Q3_K_M", "Q3_K_L"}>> >>

InFamily(quant, i) == \E fmt \in quant_families[i][2] : StartsWith(quant, fmt)

\* the first family (in table order) one of whose formats is a prefix; "" if none
FamilyOf(quant) ==
    IF \E i \in 1..Len(quant_families) : InFamily(quant, i)
    THEN quant_families[CHOOSE i \in 1..Len(quant_families) :
                           /\ InFamily(quant, i)
                           /\ \A j \in 1..(i - 1) : ~InFamily(quant, j)][1]
    ELSE ""

\* faulty variant: only the family of the last kept variant is looked at
is_different_quantization_family_LastOnly(variant, kept_variants) ==
    LET current_family == FamilyOf(Upper(variant.quantFormat))
    IN  IF current_family = "" \/ kept_variants = <<>> THEN TRUE
        ELSE ~\E i \in 1..Len(quant_families) :
                 /\ quant_families[i][1] = current_family
                 /\ InFamily(Upper(Last(kept_variants).quantFormat), i)

is_different_quantization_family(variant, kept_variants) ==
    LET current_family == FamilyOf(Upper(variant.quantFormat))
    IN  IF current_family = "" THEN TRUE
        ELSE ~\E k \in 1..Len(kept_variants) :
                \E i \in 1..Len(quant_families) :
                    /\ quant_families[i][1] = current_family
                    /\ InFamily(Upper(kept_variants[k].quantFormat), i)

\* faulty variant: the family escape asks for the plain minimum, not twice the minimum
FamilyEscape_SingleMin(c, variant, kept_variants) ==
    IF is_different_quantization_family(variant, kept_variants)
    THEN CASE variant.dlKind \in {"int", "missing"} ->
                  IF DownloadCountOrZero(variant) >= c.min_downloads
                  THEN "true" ELSE "false"
           [] OTHER -> "raise"
    ELSE "false"

\* The family-diversity escape of should_keep_variant (lines 104-107):
\* "true", "false" or "raise" (None >= int)
FamilyEscape(c, variant, kept_variants) ==
    IF is_different_quantization_family(variant, kept_variants)
    THEN CASE variant.dlKind \in {"int", "missing"} ->
                  IF DownloadCountOrZero(variant) >= c.min_downloads * 2
                  THEN "true" ELSE "false"
           [] OTHER -> "raise"
    ELSE "false"

\* The trusted fast path (lines 88-91): "true", "next" or "raise"
TrustedFastPath(c, variant) ==
    IF is_trusted_uploader(c, variant)
    THEN LET m == meets_download_threshold(variant, 50)
         IN  IF m = "false" THEN "next" ELSE m
    ELSE "next"

\* faulty variant: the first variant is judged like the others, against no
\* kept variant (no size drop, every family new)
should_keep_variant_NoAnchor(c, variant, kept_variants) ==
    LET t == TrustedFastPath(c, variant)
    IN  IF t # "next" THEN t
        ELSE LET m == meets_download_threshold(variant, c.min_downloads)
             IN  IF m # "true" THEN m
                 ELSE IF kept_variants # <<>>
                         /\ has_significant_size_drop(variant, Last(kept_variants),
                                                      c.size_drop_threshold)
                      THEN "true"
                      ELSE FamilyEscape(c, variant, kept_variants)

\* faulty variant: the size drop is tested before the download minimum
should_keep_variant_DropFirst(c, variant, kept_variants) ==
    IF kept_variants = <<>> THEN "true"
    ELSE LET t == TrustedFastPath(c, variant)
         IN  IF t # "next" THEN t
             ELSE IF has_significant_size_drop(variant, Last(kept_variants),
                                               c.size_drop_threshold)
                  THEN "true"
                  ELSE LET m == meets_download_threshold(variant, c.min_downloads)
                       IN  IF m # "true" THEN m
                           ELSE FamilyEscape(c, variant, kept_variants)

should_keep_variant(c, variant, kept_variants) ==
    IF kept_variants = <<>> THEN "true"
    ELSE LET t == TrustedFastPath(c, variant)
         IN  IF t # "next" THEN t
             ELSE LET m == meets_download_threshold(variant, c.min_downloads)
                  IN  IF m # "true" THEN m
                      ELSE IF has_significant_size_drop(variant, Last(kept_variants),
                                                        c.size_drop_threshold)
                           THEN "true"
                           ELSE FamilyEscape(c, variant, kept_variants)

\* faulty variant: a kept variant of a trusted uploader evicts those kept before
RECURSIVE FilterLoop_Evicting(_, _, _)
FilterLoop_Evicting(c, variants, kept_variants) ==
    IF variants = <<>> THEN [raised |-> FALSE, list |-> kept_variants]
    ELSE LET d == should_keep_variant(c, Head(variants), kept_variants)
         IN  CASE d = "raise" -> [raised |-> TRUE, list |-> <<>>]
               [] d = "true"  ->
                    FilterLoop_Evicting(c, Tail(variants),
                        IF is_trusted_uploader(c, Head(variants))
                        THEN <<Head(variants)>>
                        ELSE Append(kept_variants, Head(variants)))
               [] OTHER       -> FilterLoop_Evicting(c, Tail(variants), kept_variants)

\* filter_quantized_variants: the greedy pass; [raised, list]
RECURSIVE FilterLoop(_, _, _)
FilterLoop(c, variants, kept_variants) ==
    IF variants = <<>> THEN [raised |-> FALSE, list |-> kept_variants]
    ELSE LET d == should_keep_variant(c, Head(variants), kept_variants)
         IN  CASE d = "raise" -> [raised |-> TRUE, list |-> <<>>]
               [] d = "true"  -> FilterLoop(c, Tail(variants),
                                            Append(kept_variants, Head(variants)))
               [] OTHER       -> FilterLoop(c, Tail(variants), kept_variants)

filter_quantized_variants(c, variants) == FilterLoop(c, variants, <<>>)

\* list.sort(key=fileSize, reverse=True): stable, largest first
RECURSIVE InsertDesc(_, _)
InsertDesc(sorted, v) ==
    IF sorted = <<>> THEN <<v>>
    ELSE IF Head(sorted).fileSize >= v.fileSize
         THEN <<Head(sorted)>> \o InsertDesc(Tail(sorted), v)
         ELSE <<v>> \o sorted

\* faulty variant: the variants are not sorted before the greedy pass
SortDesc_Unsorted(s) == s

RECURSIVE SortDesc(_)
SortDesc(s) ==
    IF s = <<>> THEN <<>>
    ELSE InsertDesc(SortDesc(SubSeq(s, 1, Len(s) - 1)), Last(s))

\* faulty variant: the minimum-size discard of select_variants_for_group left out
ValidVariants_NoSizeFilter(c, variants) == variants

ValidVariants(c, variants) ==
    SelectSeq(variants, LAMBDA v : v.fileSize >= c.min_size_bytes)

\* faulty variant: small variants are removed from the caller's list, which is
\* then sorted in place
VariantsAfterSelect_InPlace(c, variants) == SortDesc(ValidVariants(c, variants))

\* The caller's list after select_variants_for_group: the size filter builds
\* a new list (lines 34-37) and only that list is sorted (line 43)
VariantsAfterSelect(c, variants) == variants

\* faulty variant: the base entry is appended after the variants
select_variants_for_group_BaseLast(c, base_model, variants) ==
    LET selected == IF base_model # NoEntry THEN <<base_model>> ELSE <<>>
        valid_variants == ValidVariants(c, variants)
    IN  IF variants = <<>> \/ valid_variants = <<>>
        THEN [raised |-> FALSE, list |-> selected]
        ELSE LET f == filter_quantized_variants(c, SortDesc(valid_variants))
             IN  IF f.raised THEN f
                 ELSE [raised |-> FALSE, list |-> f.list \o selected]

select_variants_for_group(c, base_model, variants) ==
    LET selected == IF base_model # NoEntry THEN <<base_model>> ELSE <<>>
        valid_variants == ValidVariants(c, variants)
    IN  IF variants = <<>> \/ valid_variants = <<>>
        THEN [raised |-> FALSE, list |-> selected]
        ELSE LET f == filter_quantized_variants(c, SortDesc(valid_variants))
             IN  IF f.raised THEN f
                 ELSE [raised |-> FALSE, list |-> selected \o f.list]

----------------------------------------------------------------------------
(* Model classifier (classifier.py).  Names are handled as word lists: the  *)
(* words of the lower-cased display name, split at non-word characters.     *)

\* SpamFilterEngine._extract_model_name: last segment of the id, "-gguf"
\* removed, split at - and _, each word capitalised
extract_model_name(idName) ==
    CASE idName = "llama-2-7b"      -> "Llama 2 7b"
      [] idName = "Llama-2-7B-GGUF" -> "Llama 2 7b"
      [] idName = "llama-2-7b-chat" -> "Llama 2 7b Chat"
      [] idName = "llama-2-7b-base" -> "Llama 2 7b Base"
      [] idName = "tinymodel"       -> "Tinymodel"
      [] OTHER -> idName

\* the words of modelName.lower()
NameWords(name) ==
    CASE name = "Llama 2 7b"      -> <<"llama", "2", "7b">>
      [] name = "Llama 2 7b Chat" -> <<"llama", "2", "7b", "chat">>
      [] name = "Llama 2 7b Base" -> <<"llama", "2", "7b", "base">>
      [] name = "Tinymodel"       -> <<"tinymodel">>
      [] name = "Llama-2-7B-GGUF" -> <<"llama", "2", "7b", "gguf">>
      [] OTHER -> <<name>>

\* the words of huggingFaceLink.lower() that come from the model id
LinkWords(model) == <<Lower(model.uploader)>> \o NameWords(model.modelName)

finetune_indicators ==
    {"dpo", "rlhf", "sft", "ppo", "medical", "legal", "finance", "science",
     "chinese", "japanese", "korean", "german", "french", "orca", "wizard"}

\* substring test between a word of the model and an indicator
ContainsStr(word, sub) == word = sub

is_finetuned(c, model) ==
    LET words == Range(NameWords(model.modelName)) \cup Range(LinkWords(model))
    IN  \/ \E i \in 1..Len(c.finetune_patterns) : c.finetune_patterns[i] \in words
        \/ \E ind \in finetune_indicators : \E w \in words : ContainsStr(w, ind)

\* is_finetuned / is_base_model raise AttributeError on a modelName that is
\* neither a string nor falsy ((name or '').lower())
classifier_raises(model) == model.nameKind = "other"

\* base_patterns (lines 27-32): architecture words, "base", "foundation"
base_pattern_words ==
    {"llama", "mistral", "qwen", "deepseek", "phi", "gemma", "falcon", "mpt",
     "base", "foundation"}

\* \b\d+[bm]\b on a word of the model
IsSizeWord(w) == w \in {"7b"}

MatchesBasePattern(words) ==
    \E w \in words : w \in base_pattern_words \/ IsSizeWord(w)

\* base_indicators (lines 98-104) that lie within one word; "llama-2",
\* "llama-3", "mistral-7b" and "6.7b" span words that base_patterns already
\* matches
base_indicators ==
    {"base", "foundation", "pretrained", "raw", "qwen", "deepseek",
     "7b", "13b", "70b", "1b", "3b", "8b"}

MatchesBaseIndicator(words) ==
    \E ind \in base_indicators : \E w \in words : ContainsStr(w, ind)

\* faulty variant: an entry is base only when a base pattern or indicator matches
is_base_model_NeedsIndicator(c, model) ==
    LET words == Range(NameWords(model.modelName)) \cup Range(LinkWords(model))
    IN  IF is_finetuned(c, model) THEN FALSE
        ELSE IF MatchesBasePattern(words) THEN TRUE
        ELSE IF MatchesBaseIndicator(words) THEN TRUE
        ELSE FALSE

is_base_model(c, model) ==
    LET words == Range(NameWords(model.modelName)) \cup Range(LinkWords(model))
    IN  IF is_finetuned(c, model) THEN FALSE
        ELSE IF MatchesBasePattern(words) THEN TRUE
        ELSE IF MatchesBaseIndicator(words) THEN TRUE
        ELSE TRUE

\* get_base_model_group: the lower-cased name cut at the first fine-tune word
\* (the original name when nothing is left)
RECURSIVE CutAtPattern(_, _)
CutAtPattern(words, patterns) ==
    IF words = <<>> \/ Head(words) \in patterns THEN <<>>
    ELSE <<Head(words)>> \o CutAtPattern(Tail(words), patterns)

get_base_model_group(c, model) ==
    LET words == NameWords(model.modelName)
        cut == CutAtPattern(words, Range(c.finetune_patterns))
    IN  IF cut = <<>> THEN words ELSE cut

----------------------------------------------------------------------------
(* Hardware requirements calculator (hardware_calculator.py).  Parameter   *)
(* counts are rationals in millions; GB = MiB / 1024.                      *)

NoParams == [known |-> FALSE, num |-> 0, den |-> 1]

\* the number before "B" matched by param_patterns in the display name
\* (billions), 0 when no pattern matches
ParamToken(name) ==
    CASE name \in {"Llama 2 7b", "Llama 2 7b Chat", "Llama 2 7b Base",
                   "Llama-2-7B-GGUF"} -> 7
      [] OTHER -> 0

\* estimate_parameters raises TypeError in re.search on a name that is not a
\* string, and in file_size > 0 (reached when no pattern matches) on a size
\* that is not a number
estimate_parameters_raises(model) ==
    \/ model.nameKind \in {"none", "other"}
    \/ ParamToken(model.modelName) = 0 /\ model.sizeKind \in {"none", "other"}

\* faulty variant: the name is ignored and the size heuristic always used
estimate_parameters_SizeOnly(model) ==
    IF model.fileSize > 0 /\ model.fileSize * 2 > 1536
    THEN [known |-> TRUE, num |-> model.fileSize * 1000, den |-> 1536]
    ELSE NoParams

estimate_parameters(model) ==
    IF ParamToken(model.modelName) > 0
    THEN [known |-> TRUE, num |-> ParamToken(model.modelName) * 1000, den |-> 1]
    ELSE IF model.fileSize > 0 /\ model.fileSize * 2 > 1536
         THEN [known |-> TRUE, num |-> model.fileSize * 1000, den |-> 1536]
         ELSE NoParams

EfficientFormats ==
    {"Q4_K_M", "Q4_K_S", "Q4_0", "Q4_1", "Q3_K_M", "Q3_K_S", "Q3_K_L", "Q2_K",
     "IQ4_XS", "IQ3_XXS", "IQ2_XXS"}

is_efficient_quantization(quant_format) ==
    quant_format # "" /\ Upper(quant_format) \in EfficientFormats

\* smallest bucket b of ladder with num/den <= b, else the last value
Bucket(num, den, ladder, top) ==
    IF \E i \in 1..Len(ladder) : num <= ladder[i] * den
    THEN ladder[CHOOSE i \in 1..Len(ladder) :
                   /\ num <= ladder[i] * den
                   /\ \A j \in 1..(i - 1) : ~(num <= ladder[j] * den)]
    ELSE top

\* faulty variant: the reduction for efficient formats is not applied
calculate_ram_requirements_NoReduction(c, file_size, quant_format) ==
    IF file_size <= 0 THEN 8
    ELSE Bucket(file_size * c.ram_multiplier.num, 1024 * c.ram_multiplier.den,
                <<8, 16, 32, 64>>, 128)

calculate_ram_requirements(c, file_size, quant_format) ==
    IF file_size <= 0 THEN 8
    ELSE LET red == c.quantization_ram_reduction
             eff == is_efficient_quantization(quant_format)
             num == file_size * c.ram_multiplier.num
                        * (IF eff THEN red.den - red.num ELSE red.den)
             den == 1024 * c.ram_multiplier.den * red.den
         IN  Bucket(num, den, <<8, 16, 32, 64>>, 128)

calculate_cpu_requirements(c, estimated_params, file_size) ==
    IF estimated_params.known
    THEN LET le(t) == estimated_params.num <= t * estimated_params.den
         IN  CASE le(c.small_model_threshold)  -> 4
               [] le(c.medium_model_threshold) -> 6
               [] le(30000)                    -> 8
               [] le(70000)                    -> 12
               [] OTHER                        -> 16
    ELSE CASE file_size <= 2 * 1024  -> 4
           [] file_size <= 6 * 1024  -> 6
           [] file_size <= 15 * 1024 -> 8
           [] file_size <= 40 * 1024 -> 12
           [] OTHER                  -> 16

\* faulty variant: a file of exactly 4GB no longer counts as small
determine_gpu_requirement_BelowFour(c, estimated_params, file_size, quant_format) ==
    IF estimated_params.known
       /\ estimated_params.num >= c.gpu_required_threshold * estimated_params.den
    THEN TRUE
    ELSE IF file_size >= 8 * 1024 THEN TRUE
    ELSE IF is_efficient_quantization(quant_format) /\ file_size < 4 * 1024 THEN FALSE
    ELSE TRUE

determine_gpu_requirement(c, estimated_params, file_size, quant_format) ==
    IF estimated_params.known
       /\ estimated_params.num >= c.gpu_required_threshold * estimated_params.den
    THEN TRUE
    ELSE IF file_size >= 8 * 1024 THEN TRUE
    ELSE IF is_efficient_quantization(quant_format) /\ file_size <= 4 * 1024 THEN FALSE
    ELSE TRUE

get_os_support(c, model) == c.default_os_support

\* _apply_default_requirements: 3x ladder on the size clamped to >= 1 GB
apply_default_requirements(c, model) ==
    LET gbNum == IF model.sizeKind = "int" /\ model.fileSize > 1024
                 THEN model.fileSize ELSE 1024
    IN  [model EXCEPT !.hw =
            [present |-> TRUE,
             minRamGB |-> Bucket(gbNum * 3, 1024, <<8, 16, 32>>, 64),
             minCpuCores |-> 8,
             gpuRequired |-> TRUE,
             osSupported |-> c.default_os_support]]

\* lines 43-49: the size is missing (0), a non-negative number, or invalid
InvalidFileSize(model) ==
    \/ model.sizeKind \in {"none", "other"}
    \/ model.sizeKind = "int" /\ model.fileSize < 0

\* lines 57-61: None becomes '', another value its str()
QuantFormatArg(model) ==
    IF model.fmtKind \in {"none", "missing"} THEN "" ELSE model.quantFormat

\* the try block of calculate_requirements left by an exception
RequirementsFailed(model) ==
    InvalidFileSize(model) \/ estimate_parameters_raises(model)

\* The entry passed to calculate_requirements after the call: the hardware
\* fields are set on model.copy() (line 40, line 248 on the fallback path)
ModelAfterRequirements(c, model) == model

\* faulty variant: the except clause hands the entry back without a profile
calculate_requirements_NoFallback(c, model) ==
    IF RequirementsFailed(model) THEN model
    ELSE LET estimated_params == estimate_parameters(model)
             quant_format == QuantFormatArg(model)
         IN  [model EXCEPT !.hw =
                 [present |-> TRUE,
                  minRamGB |-> calculate_ram_requirements(c, model.fileSize,
                                                          quant_format),
                  minCpuCores |-> calculate_cpu_requirements(c, estimated_params,
                                                             model.fileSize),
                  gpuRequired |-> determine_gpu_requirement(c, estimated_params,
                                      model.fileSize, quant_format),
                  osSupported |-> get_os_support(c, model)]]

calculate_requirements(c, model) ==
    IF RequirementsFailed(model) THEN apply_default_requirements(c, model)
    ELSE LET estimated_params == estimate_parameters(model)
             quant_format == QuantFormatArg(model)
         IN  [model EXCEPT !.hw =
                 [present |-> TRUE,
                  minRamGB |-> calculate_ram_requirements(c, model.fileSize,
                                                          quant_format),
                  minCpuCores |-> calculate_cpu_requirements(c, estimated_params,
                                                             model.fileSize),
                  gpuRequired |-> determine_gpu_requirement(c, estimated_params,
                                      model.fileSize, quant_format),
                  osSupported |-> get_os_support(c, model)]]

----------------------------------------------------------------------------
(* Filtering engine (engine.py): raw records, report, stages *)

\* A raw record: a dict with id = owner/idName, downloads and siblings, or a
\* value that is not a dict.  A sibling has rfilename (NoneName when the key
\* holds None) and size (sizeKind "none" when it holds None).
NoneName == "<None>"

RawModel(owner, idName, dlKind, dl, siblings) ==
    [kind |-> "dict", owner |-> owner, idName |-> idName,
     dlKind |-> dlKind, downloads |-> dl, siblings |-> siblings]

NotADict == [kind |-> "notdict", owner |-> "", idName |-> "",
             dlKind |-> "none", downloads |-> 0, siblings |-> <<>>]

Sibling(rfilename, sizeKind, size) ==
    [rfilename |-> rfilename, sizeKind |-> sizeKind, size |-> size]

\* rfilename.lower().endswith('.gguf')
EndsWithGguf(rfilename) ==
    rfilename \in {"model.Q4_K_M.gguf", "model.Q8_0.gguf", "model.f16.gguf",
                   "model.bf16.gguf", "model.gguf"}

\* _extract_quantization_format: first pattern found in the lower-cased name
extract_quantization_format(filename) ==
    CASE filename = "model.bf16.gguf"   -> "BF16"
      [] filename = "model.f16.gguf"    -> "F16"
      [] filename = "model.Q8_0.gguf"   -> "Q8_0"
      [] filename = "model.Q4_K_M.gguf" -> "Q4_K_M"
      [] OTHER -> "Unknown"

ErrorMsg(msg, rec) == [msg |-> msg, id |-> <<rec.owner, rec.idName>>]

FilteringFailed == [msg |-> "Filtering failed", id |-> <<"", "">>]

\* _has_gguf_files: any() over the siblings in order; "true", "false", "raise"
RECURSIVE AnyGguf(_)
AnyGguf(siblings) ==
    IF siblings = <<>> THEN "false"
    ELSE IF Head(siblings).rfilename = NoneName THEN "raise"
    ELSE IF EndsWithGguf(Head(siblings).rfilename) THEN "true"
    ELSE AnyGguf(Tail(siblings))

has_gguf_files(raw_model) == AnyGguf(raw_model.siblings)

\* _get_gguf_files: the comprehension visits every sibling
get_gguf_files(raw_model) ==
    IF \E i \in 1..Len(raw_model.siblings) : raw_model.siblings[i].rfilename = NoneName
    THEN [raised |-> TRUE, list |-> <<>>]
    ELSE [raised |-> FALSE,
          list |-> SelectSeq(raw_model.siblings, LAMBDA sb : EndsWithGguf(sb.rfilename))]

\* _convert_to_expected_format: <<entry>>, or <<>> when it returns None (its
\* own except clause, reached when _format_file_size cannot compare the size)
convert_to_expected_format(raw_model, gguf_file) ==
    IF gguf_file.sizeKind # "int" THEN <<>>
    ELSE << Entry(extract_model_name(raw_model.idName),
                  extract_quantization_format(gguf_file.rfilename),
                  gguf_file.size, raw_model.owner, raw_model.dlKind,
                  raw_model.downloads,
                  <<raw_model.owner, raw_model.idName, gguf_file.rfilename>>) >>

RECURSIVE ConvertAll(_, _)
ConvertAll(raw_model, gguf_files) ==
    IF gguf_files = <<>> THEN <<>>
    ELSE convert_to_expected_format(raw_model, Head(gguf_files))
            \o ConvertAll(raw_model, Tail(gguf_files))

\* _extract_gguf_models: [fatal, mods, errors].  An exception raised inside
\* the outer except clause (raw_model.get on a non-dict) leaves the function.
RECURSIVE extract_gguf_models(_, _, _)
extract_gguf_models(raws, gguf_models, errs) ==
    IF raws = <<>> THEN [fatal |-> FALSE, models |-> gguf_models, errors |-> errs]
    ELSE LET raw_model == Head(raws)
             rest == Tail(raws)
         IN  IF raw_model.kind # "dict"
             THEN [fatal |-> TRUE, models |-> gguf_models, errors |-> errs]
             ELSE LET h == has_gguf_files(raw_model)
                      g == get_gguf_files(raw_model)
                      failed == Append(errs, ErrorMsg("Error processing raw model",
                                                      raw_model))
                  IN  CASE h = "raise" -> extract_gguf_models(rest, gguf_models, failed)
                        [] h = "false" -> extract_gguf_models(rest, gguf_models, errs)
                        [] OTHER ->
                             IF g.raised
                             THEN extract_gguf_models(rest, gguf_models, failed)
                             ELSE extract_gguf_models(rest,
                                      gguf_models \o ConvertAll(raw_model, g.list), errs)

\* ProcessingReport()
ProcessingReport ==
    [ total_processed |-> 0, total_kept |-> 0, total_removed |-> 0,
      small_models_removed |-> 0, finetuned_removed |-> 0,
      quantization_variants_removed |-> 0, variants_removed_by_size |-> 0,
      variants_removed_by_uploader |-> 0, variants_removed_by_downloads |-> 0,
      base_models_kept |-> 0, quantized_variants_kept |-> 0,
      trusted_uploader_variants_kept |-> 0, size_reduction_mb |-> 0,
      processing_time_seconds |-> 0, model_group_stats |-> <<>>, errors |-> <<>> ]

\* ProcessingReport.add_group_stats (a dict in insertion order; the engine
\* adds every group name once)
add_group_stats(rep, group_name, original_count, kept_count) ==
    [rep EXCEPT !.model_group_stats =
        Append(@, [group |-> group_name, original |-> original_count,
                   kept |-> kept_count, removed |-> original_count - kept_count])]

calculate_totals(rep) ==
    [rep EXCEPT !.total_removed = rep.total_processed - rep.total_kept]

\* _remove_small_models
remove_small_models(c, mods, rep) ==
    LET filtered == SelectSeq(mods, LAMBDA m : m.fileSize >= c.min_size_bytes)
    IN  [models |-> filtered,
         report |-> [rep EXCEPT !.small_models_removed =
                                       @ + Len(mods) - Len(filtered)]]

\* faulty variant: fine-tuned entries are counted but not removed
remove_finetuned_models_KeepAll(c, mods, rep) ==
    LET filtered == SelectSeq(mods, LAMBDA m : is_base_model(c, m))
    IN  [models |-> mods,
         report |-> [rep EXCEPT !.finetuned_removed =
                                       @ + Len(mods) - Len(filtered)]]

\* _remove_finetuned_models
remove_finetuned_models(c, mods, rep) ==
    LET filtered == SelectSeq(mods, LAMBDA m : is_base_model(c, m))
    IN  [models |-> filtered,
         report |-> [rep EXCEPT !.finetuned_removed =
                                       @ + Len(mods) - Len(filtered)]]

\* faulty variant: every entry lands in the group of the first one
group_models_by_base_OneGroup(c, mods, groups) ==
    IF mods = <<>> THEN groups
    ELSE <<[key |-> get_base_model_group(c, mods[1]), models |-> mods]>>

\* _group_models_by_base: groups in order of first appearance
RECURSIVE group_models_by_base(_, _, _)
group_models_by_base(c, mods, groups) ==
    IF mods = <<>> THEN groups
    ELSE LET model == Head(mods)
             key == get_base_model_group(c, model)
         IN  IF \E i \in 1..Len(groups) : groups[i].key = key
             THEN LET i == CHOOSE i \in 1..Len(groups) : groups[i].key = key
                  IN  group_models_by_base(c, Tail(mods),
                          [groups EXCEPT ![i].models = Append(@, model)])
             ELSE group_models_by_base(c, Tail(mods),
                      Append(groups, [key |-> key, models |-> <<model>>]))

\* the split of _filter_variants_in_groups (line 359)
IsBaseCandidate(model) ==
    \/ Upper(model.quantFormat) \in {"F16", "BF16"}
    \/ \E w \in Range(NameWords(model.modelName)) : ContainsStr(w, "base")

\* faulty variant: the first base candidate is taken instead of the largest
MaxBySize_First(mods) == mods[1]

\* max(base_models, key=fileSize): the first entry of maximal size
MaxBySize(mods) ==
    mods[CHOOSE i \in 1..Len(mods) :
              /\ \A j \in 1..Len(mods) : mods[j].fileSize <= mods[i].fileSize
              /\ \A j \in 1..(i - 1) : mods[j].fileSize < mods[i].fileSize]

TrustedCount(c, mods) ==
    Cardinality({i \in 1..Len(mods) : is_trusted_uploader(c, mods[i])})

\* faulty variant: variants are selected only while no variant of an earlier
\* group has been kept
FilterGroup_FirstGroupOnly(c, group, final_models, rep) ==
    LET mods == group.models
        base_models == SelectSeq(mods, IsBaseCandidate)
        variants == IF rep.quantized_variants_kept > 0 THEN <<>>
                    ELSE SelectSeq(mods, LAMBDA m : ~IsBaseCandidate(m))
        hasBase == base_models # <<>>
        report1 == IF hasBase THEN [rep EXCEPT !.base_models_kept = @ + 1]
                   ELSE rep
        sel == IF variants # <<>> THEN select_variants_for_group(c, NoEntry, variants)
               ELSE [raised |-> FALSE, list |-> <<>>]
        selected_variants == sel.list
        report2 == IF variants # <<>>
                   THEN [report1 EXCEPT
                           !.quantized_variants_kept = @ + Len(selected_variants),
                           !.quantization_variants_removed =
                               @ + Len(variants) - Len(selected_variants),
                           !.trusted_uploader_variants_kept =
                               @ + TrustedCount(c, selected_variants)]
                   ELSE report1
        kept_count == (IF hasBase THEN 1 ELSE 0) + Len(selected_variants)
    IN  IF sel.raised
        THEN [raised |-> TRUE, final_models |-> final_models, report |-> report1]
        ELSE [raised |-> FALSE,
              final_models |-> final_models \o selected_variants
                    \o (IF hasBase THEN <<MaxBySize(base_models)>> ELSE <<>>),
              report |-> add_group_stats(report2, group.key, Len(mods), kept_count)]

\* One iteration of the loop of _filter_variants_in_groups:
\* [raised, final_models, rep]
FilterGroup(c, group, final_models, rep) ==
    LET mods == group.models
        base_models == SelectSeq(mods, IsBaseCandidate)
        variants == SelectSeq(mods, LAMBDA m : ~IsBaseCandidate(m))
        hasBase == base_models # <<>>
        report1 == IF hasBase THEN [rep EXCEPT !.base_models_kept = @ + 1]
                   ELSE rep
        \* the rest of the iteration (lines 374-390), given what
        \* select_variants_for_group returned or raised
        AfterSelect(sel) ==
            LET selected_variants == sel.list
                report2 == IF variants # <<>>
                           THEN [report1 EXCEPT
                                   !.quantized_variants_kept = @ + Len(selected_variants),
                                   !.quantization_variants_removed =
                                       @ + Len(variants) - Len(selected_variants),
                                   !.trusted_uploader_variants_kept =
                                       @ + TrustedCount(c, selected_variants)]
                           ELSE report1
                kept_count == (IF hasBase THEN 1 ELSE 0) + Len(selected_variants)
            IN  IF sel.raised
                THEN [raised |-> TRUE, final_models |-> final_models, report |-> report1]
                ELSE [raised |-> FALSE,
                      final_models |-> final_models \o selected_variants
                            \o (IF hasBase THEN <<MaxBySize(base_models)>> ELSE <<>>),
                      report |-> add_group_stats(report2, group.key, Len(mods),
                                                 kept_count)]
    IN  AfterSelect(IF variants # <<>>
                    THEN select_variants_for_group(c, NoEntry, variants)
                    ELSE [raised |-> FALSE, list |-> <<>>])

RECURSIVE filter_variants_in_groups(_, _, _, _)
filter_variants_in_groups(c, groups, final_models, rep) ==
    IF groups = <<>>
    THEN [raised |-> FALSE, final_models |-> final_models, report |-> rep]
    ELSE LET NextGroup(r) ==
                 IF r.raised THEN r
                 ELSE filter_variants_in_groups(c, Tail(groups),
                                                r.final_models, r.report)
         IN  NextGroup(FilterGroup(c, Head(groups), final_models, rep))

\* calculate_requirements catches every exception and falls back to
\* _apply_default_requirements, which does not raise on a dict entry: the
\* except clause of _add_hardware_requirements is never taken
calculate_requirements_raises(c, model) == FALSE

RECURSIVE add_hardware_requirements(_, _)
add_hardware_requirements(c, mods) ==
    IF mods = <<>> THEN <<>>
    ELSE <<IF calculate_requirements_raises(c, Head(mods)) THEN Head(mods)
           ELSE calculate_requirements(c, Head(mods))>>
         \o add_hardware_requirements(c, Tail(mods))

\* FilterResult
FilterResult(filtered, original_count, filtered_count, removed_count, rep, errs) ==
    [ returned |-> TRUE, filtered_models |-> filtered,
      original_count |-> original_count, filtered_count |-> filtered_count,
      removed_count |-> removed_count, processing_report |-> rep,
      errors |-> errs ]

NoResult ==
    [ returned |-> FALSE, filtered_models |-> <<>>, original_count |-> 0,
      filtered_count |-> 0, removed_count |-> 0,
      processing_report |-> ProcessingReport, errors |-> <<>> ]

\* faulty variant: the except clause hands back the entries processed so far
FailedResult_Partial(rep, errs) ==
    FilterResult(models, rep.total_processed, Len(models),
                 rep.total_processed - Len(models), rep,
                 Append(errs, FilteringFailed))

\* the except clause of filter_models (lines 154-166)
FailedResult(rep, errs) ==
    FilterResult(<<>>, rep.total_processed, 0, rep.total_processed, rep,
                 Append(errs, FilteringFailed))

\* faulty variant: a run counts as successful as soon as it returns entries
success_AnyEntries(res) == res.filtered_count > 0

success(res) == Len(res.errors) = 0 /\ res.filtered_count > 0

----------------------------------------------------------------------------
(* filter_models as a process: one action per stage; an exception that     *)
(* reaches the except clause of filter_models ends the call with            *)
(* FailedResult.  The same engine can be called a second time on the batch. *)

\* no call of filter_models in this behaviour
PipeIdle ==
    /\ raw_models = <<>> /\ pc = "idle" /\ run = 0
    /\ models = <<>> /\ model_groups = <<>>
    /\ report = ProcessingReport /\ errors = <<>>
    /\ result = NoResult /\ firstResult = NoResult

\* no direct call of the selector in this behaviour
SelIdle ==
    /\ selBase = NoEntry /\ selVariants = <<>> /\ selOp = "idle"
    /\ selResult = [raised |-> FALSE, list |-> <<>>]

NoCallResult ==
    [raised |-> FALSE, entry |-> NoEntry, finetuned |-> FALSE, base |-> FALSE,
     params |-> NoParams, ram |-> 0, cpu |-> 0, gpu |-> FALSE, messages |-> <<>>]

\* no direct call of the classifier or the calculator in this behaviour
CallIdle ==
    /\ callModel = NoEntry /\ callOp = "idle"
    /\ callResult = NoCallResult

MaxRecords == 2
MaxSiblings == 2
MaxElapsed == 2

\* no direct call of should_keep_variant in this behaviour
KeepIdle ==
    /\ keepVariant = NoEntry /\ keepKept = <<>> /\ keepOp = "idle"
    /\ keepResult = "none"

InvalidOsConfig == [FilterConfig EXCEPT !.default_os_support = <<>>]

PipeConfigs == {FilterConfig, InvalidOsConfig}

Owners == {"TheBloke", "Someone"}
IdNames == {"llama-2-7b", "llama-2-7b-chat", "llama-2-7b-base"}
\* downloads of a record: <<kind, value>>
DownloadPool == {<<"int", 60>>, <<"int", 500>>, <<"str", 0>>}

GoodSiblings ==
    {Sibling(f, "int", sz) : f \in {"model.f16.gguf", "model.Q4_K_M.gguf"},
                             sz \in {60, 120, 300}}

SiblingPool ==
    GoodSiblings \cup {Sibling("README.md", "int", 1),
                       Sibling(NoneName, "int", 0),
                       Sibling("model.Q8_0.gguf", "none", 0)}

RichRecords ==
    {RawModel(o, n, d[1], d[2], sibs) :
        o \in Owners, n \in IdNames, d \in DownloadPool,
        sibs \in SeqsUpTo(SiblingPool, MaxSiblings)}

\* two quantized files of one repository
TwoVariants ==
    <<Sibling("model.Q4_K_M.gguf", "int", 300), Sibling("model.Q4_K_M.gguf", "int", 120)>>

SmallRecords ==
    {RawModel("Someone", n, "int", 500, <<sb>>) :
        n \in IdNames \cup {"tinymodel"},
        sb \in {Sibling("model.f16.gguf", "int", 300),
                Sibling("model.Q4_K_M.gguf", "int", 120),
                Sibling("model.Q4_K_M.gguf", "int", 300)}}
    \cup {NotADict,
          RawModel("Someone", "llama-2-7b", "int", 500, <<Sibling(NoneName, "int", 0)>>),
          RawModel("Someone", "llama-2-7b", "int", 60,
                   <<Sibling("model.Q4_K_M.gguf", "int", 120)>>),
          RawModel("Someone", "llama-2-7b", "int", 60, TwoVariants),
          RawModel("Someone", "llama-2-7b", "str", 0, TwoVariants)}

Batches == {<<r>> : r \in RichRecords} \cup SeqsUpTo(SmallRecords, MaxRecords)

\* the batches run under the configuration validate() rejects
InvalidConfigBatches == {<<>>} \cup {<<r>> : r \in SmallRecords}

Init ==
    /\ cfg \in PipeConfigs
    /\ raw_models \in Batches
    /\ (cfg = InvalidOsConfig) => raw_models \in InvalidConfigBatches
    /\ pc = "extract" /\ run = 1
    /\ models = <<>> /\ model_groups = <<>>
    /\ report = ProcessingReport /\ errors = <<>>
    /\ result = NoResult /\ firstResult = NoResult
    /\ SelIdle /\ CallIdle /\ KeepIdle

\* the call ends in the except clause of filter_models
Fails(rep, errs) ==
    /\ pc' = "done"
    /\ result' = FailedResult(rep, errs)
    /\ report' = rep
    /\ errors' = Append(errs, FilteringFailed)
    /\ models' = <<>> /\ model_groups' = <<>>

\* faulty variant: an extraction that yields no entry is treated as a failure
ExtractionAborted_OnEmpty(ex) == ex.fatal \/ ex.models = <<>>

\* an exception left _extract_gguf_models (line 110) for the except clause
ExtractionAborted(ex) == ex.fatal

\* Step 1: _extract_gguf_models, report.total_processed
StepExtract ==
    /\ pc = "extract"
    /\ LET ex == extract_gguf_models(raw_models, <<>>, errors)
       IN  IF ExtractionAborted(ex) THEN Fails(report, ex.errors)
           ELSE /\ models' = ex.models
                /\ errors' = ex.errors
                /\ report' = [report EXCEPT !.total_processed = Len(ex.models)]
                /\ pc' = "small"
                /\ UNCHANGED <<model_groups, result>>
    /\ UNCHANGED <<cfg, raw_models, run, firstResult, selVars, callVars, keepVars>>

\* Step 2: _remove_small_models
StepRemoveSmall ==
    /\ pc = "small"
    /\ LET r == remove_small_models(cfg, models, report)
       IN  models' = r.models /\ report' = r.report
    /\ pc' = "finetuned"
    /\ UNCHANGED <<cfg, raw_models, run, model_groups, errors, result, firstResult,
                   selVars, callVars, keepVars>>

\* Step 3: _remove_finetuned_models
StepRemoveFinetuned ==
    /\ pc = "finetuned"
    /\ LET r == remove_finetuned_models(cfg, models, report)
       IN  models' = r.models /\ report' = r.report
    /\ pc' = "group"
    /\ UNCHANGED <<cfg, raw_models, run, model_groups, errors, result, firstResult,
                   selVars, callVars, keepVars>>

\* Step 4: _group_models_by_base
StepGroup ==
    /\ pc = "group"
    /\ model_groups' = group_models_by_base(cfg, models, <<>>)
    /\ pc' = "variants"
    /\ UNCHANGED <<cfg, raw_models, run, models, report, errors, result, firstResult,
                   selVars, callVars, keepVars>>

\* Step 5: _filter_variants_in_groups
StepFilterVariants ==
    /\ pc = "variants"
    /\ \E r \in {filter_variants_in_groups(cfg, model_groups, <<>>, report)} :
           IF r.raised THEN Fails(r.report, errors)
           ELSE /\ models' = r.final_models
                /\ report' = r.report
                /\ pc' = "hardware"
                /\ UNCHANGED <<model_groups, errors, result>>
    /\ UNCHANGED <<cfg, raw_models, run, firstResult, selVars, callVars, keepVars>>

\* Step 6 and the return: _add_hardware_requirements, final statistics,
\* FilterResult; the elapsed time is whatever the clock says
StepHardware ==
    /\ pc = "hardware"
    /\ \E elapsed \in 1..MaxElapsed :
         LET enhanced_models == add_hardware_requirements(cfg, models)
             rep == calculate_totals(
                        [report EXCEPT !.total_kept = Len(enhanced_models),
                                       !.processing_time_seconds = elapsed])
         IN  /\ models' = enhanced_models
             /\ report' = rep
             /\ result' = FilterResult(enhanced_models, rep.total_processed,
                              Len(enhanced_models),
                              rep.total_processed - Len(enhanced_models), rep, errors)
    /\ pc' = "done"
    /\ UNCHANGED <<cfg, raw_models, run, model_groups, errors, firstResult, selVars, callVars, keepVars>>

\* faulty variant: the report lives in the engine and is not created anew per call
CallAgain_KeepReport ==
    /\ pc = "done" /\ run = 1
    /\ firstResult' = result
    /\ run' = 2
    /\ pc' = "extract"
    /\ models' = <<>> /\ model_groups' = <<>>
    /\ report' = report /\ errors' = <<>>
    /\ UNCHANGED <<cfg, raw_models, result, selVars, callVars, keepVars>>

\* filter_models is called again on the same batch with the same engine
CallAgain ==
    /\ pc = "done" /\ run = 1
    /\ firstResult' = result
    /\ run' = 2
    /\ pc' = "extract"
    /\ models' = <<>> /\ model_groups' = <<>>
    /\ report' = ProcessingReport /\ errors' = <<>>
    /\ UNCHANGED <<cfg, raw_models, result, selVars, callVars, keepVars>>

\* process_data after its call of filter_models (fetcher lines 520-527 and
\* 539): it raises "Spam filtering failed" unless the result reports success,
\* and otherwise goes on to _generate_output with result.filtered_models
ProcessData ==
    /\ pc = "done" /\ run = 1
    /\ pc' = IF success(result) THEN "written" ELSE "raised"
    /\ UNCHANGED <<cfg, raw_models, run, models, model_groups, report, errors, result,
                   firstResult, selVars, callVars, keepVars>>

Next ==
    \/ ProcessData
    \/ StepExtract
    \/ StepRemoveSmall
    \/ StepRemoveFinetuned
    \/ StepGroup
    \/ StepFilterVariants
    \/ StepHardware
    \/ CallAgain

Spec == Init /\ [][Next]_vars

----------------------------------------------------------------------------
(* Direct calls of the selector on bounded inputs *)

MaxVariants == 2

SelSizes == {0, 120, 125, 300}
SelDownloads == {40, 60, 150, 500}
SelUploaders == {"thebloke", "Someone"}
SelFormats == {"Q4_K_M", "Q8_0"}

\* entries whose downloadCount holds None, or a string
OddDownloads ==
    {Entry("Llama 2 7b", "Q4_K_M", 300, "Someone", k, 0, NoLink) : k \in {"none", "str"}}

SelEntries ==
    {Entry("Llama 2 7b", f, s, u, "int", d, NoLink) :
        f \in SelFormats, s \in SelSizes, u \in SelUploaders, d \in SelDownloads}
    \cup OddDownloads

SelBases == {NoEntry, Entry("Llama 2 7b", "F16", 500, "Someone", "int", 10, NoLink)}

\* The group of the scenario: F16 base (500MB) with Q8_0 (300MB, untrusted,
\* 40 downloads), Q4_K_M (120MB, trusted, 60) and Q2_K (60MB, untrusted, 500)
ScenarioBase == Entry("Llama 2 7b", "F16", 500, "Someone", "int", 10, NoLink)
ScenarioQ8 == Entry("Llama 2 7b", "Q8_0", 300, "Someone", "int", 40, NoLink)
ScenarioQ4 == Entry("Llama 2 7b", "Q4_K_M", 120, "TheBloke", "int", 60, NoLink)
ScenarioQ2 == Entry("Llama 2 7b", "Q2_K", 60, "Someone", "int", 500, NoLink)
ScenarioVariants == <<ScenarioQ8, ScenarioQ4, ScenarioQ2>>

InitSel ==
    /\ cfg = FilterConfig
    /\ \/ selBase \in SelBases /\ selVariants \in SeqsUpTo(SelEntries, MaxVariants)
       \/ selBase = ScenarioBase /\ selVariants = ScenarioVariants
    /\ selOp = "none"
    /\ selResult = [raised |-> FALSE, list |-> <<>>]
    /\ PipeIdle /\ CallIdle /\ KeepIdle

\* selector.select_variants_for_group(selBase, selVariants)
CallSelect ==
    /\ selOp = "none"
    /\ selOp' = "select"
    /\ selResult' = select_variants_for_group(cfg, selBase, selVariants)
    /\ selVariants' = VariantsAfterSelect(cfg, selVariants)
    /\ UNCHANGED <<cfg, selBase, pipeVars, callVars, keepVars>>

\* selector.filter_quantized_variants(selVariants); the call takes no base
CallFilter ==
    /\ selOp = "none" /\ selBase = NoEntry
    /\ selOp' = "filter"
    /\ selResult' = filter_quantized_variants(cfg, selVariants)
    /\ UNCHANGED <<cfg, selBase, selVariants, pipeVars, callVars, keepVars>>

NextSel == CallSelect \/ CallFilter

SpecSel == InitSel /\ [][NextSel]_vars

----------------------------------------------------------------------------
(* Direct calls of should_keep_variant on a candidate and a kept list *)

MaxKept == 2

\* configurations: the defaults, no download minimum, a minimum below the
\* lowered threshold of the trusted fast path, a size-drop threshold of 50%
KeepConfigs ==
    {FilterConfig,
     [FilterConfig EXCEPT !.min_downloads = 0],
     [FilterConfig EXCEPT !.min_downloads = 30],
     [FilterConfig EXCEPT !.size_drop_threshold = Rat(1, 2)]}

\* sizes around a last kept variant of 200MB: drops of 2.5%, exactly 5%,
\* 5.5% and exactly 50%
KeepSizes == {100, 189, 190, 195}
KeepFormats == {"Q4_K_S", "q4_k_m", "Q8_0", "Unknown"}
KeepUploaders == {"thebloke", "Someone"}
KeepDownloads == {0, 40, 49, 50, 60, 99, 100, 199, 200}

KeepCandidates ==
    {Entry("Llama 2 7b", f, s, u, "int", d, NoLink) :
        f \in KeepFormats, s \in KeepSizes, u \in KeepUploaders, d \in KeepDownloads}
    \cup {Entry("Llama 2 7b", f, s, u, k, 0, NoLink) :
        f \in KeepFormats, s \in KeepSizes, u \in KeepUploaders,
        k \in {"none", "missing", "str"}}

\* what should_keep_variant reads of a kept variant: its size and its format
KeptPool ==
    {Entry("Llama 2 7b", f, s, "Someone", "int", 500, NoLink) :
        f \in {"Q4_K_M", "Q8_0"}, s \in {0, 200, 300}}

InitKeep ==
    /\ cfg \in KeepConfigs
    /\ keepVariant \in KeepCandidates
    /\ keepKept \in SeqsUpTo(KeptPool, MaxKept)
    /\ keepOp = "none"
    /\ keepResult = "none"
    /\ PipeIdle /\ SelIdle /\ CallIdle

\* selector.should_keep_variant(keepVariant, keepKept)
CallKeep ==
    /\ keepOp = "none"
    /\ keepOp' = "keep"
    /\ keepResult' = should_keep_variant(cfg, keepVariant, keepKept)
    /\ UNCHANGED <<cfg, keepVariant, keepKept, selVars, pipeVars, callVars>>

NextKeep == CallKeep

SpecKeep == InitKeep /\ [][NextKeep]_vars

----------------------------------------------------------------------------
(* Direct calls of the classifier and of the hardware calculator on one    *)
(* entry drawn from bounded pools                                          *)

\* what the key modelName holds: <<kind, value>>
CallNames ==
    {<<"str", "Llama 2 7b">>, <<"str", "Llama 2 7b Chat">>, <<"str", "Tinymodel">>,
     <<"str", "Llama-2-7B-GGUF">>, <<"none", "">>, <<"missing", "">>,
     <<"other", "">>}

\* what the key fileSize holds, in MiB
CallSizes ==
    {<<"int", sz>> : sz \in {-5, 0, 100, 768, 769, 1024, 3072, 3073, 4005, 4006, 4096,
                             4097, 5851, 5852, 8192, 8193, 12000, 16384, 46811,
                             46812, 70000}}
    \cup {<<"missing", 0>>, <<"none", 0>>, <<"other", 0>>}

\* what the key quantFormat holds
CallFormats ==
    {<<"str", "Q4_K_M">>, <<"str", "q4_k_m">>, <<"str", "F16">>, <<"str", "IQ4_XS">>,
     <<"str", "Q8_0">>, <<"str", "">>, <<"none", "">>, <<"other", "4">>}

CallEntry(n, sz, f) ==
    [Entry(n[2], f[2], sz[2], "Someone", "int", 500, NoLink)
        EXCEPT !.nameKind = n[1], !.sizeKind = sz[1], !.fmtKind = f[1]]

CallEntries == {CallEntry(n, sz, f) : n \in CallNames, sz \in CallSizes, f \in CallFormats}

\* estimated parameter counts handed to calculate_cpu_requirements (millions)
CallParams ==
    {NoParams} \cup {[known |-> TRUE, num |-> n, den |-> 1] :
                        n \in {500, 2000, 2001, 7000, 7001, 12999, 13000, 30000, 30001,
                              70000, 70001}}

InitCall ==
    /\ cfg = FilterConfig
    /\ callModel \in CallEntries
    /\ callOp = "none"
    /\ callResult = NoCallResult
    /\ PipeIdle /\ SelIdle /\ KeepIdle

\* classifier.is_finetuned(callModel) and classifier.is_base_model(callModel)
CallClassify ==
    /\ callOp = "none"
    /\ callOp' = "classify"
    /\ callResult' = IF classifier_raises(callModel)
                     THEN [NoCallResult EXCEPT !.raised = TRUE]
                     ELSE [NoCallResult EXCEPT
                             !.finetuned = is_finetuned(cfg, callModel),
                             !.base = is_base_model(cfg, callModel)]
    /\ UNCHANGED <<cfg, callModel, selVars, pipeVars, keepVars>>

\* calculator.calculate_requirements(callModel)
CallRequirements ==
    /\ callOp = "none"
    /\ callOp' = "requirements"
    /\ callResult' = [NoCallResult EXCEPT
                        !.entry = calculate_requirements(cfg, callModel)]
    /\ callModel' = ModelAfterRequirements(cfg, callModel)
    /\ UNCHANGED <<cfg, selVars, pipeVars, keepVars>>

\* calculator.estimate_parameters(callModel)
CallEstimate ==
    /\ callOp = "none"
    /\ callOp' = "estimate"
    /\ callResult' = IF estimate_parameters_raises(callModel)
                     THEN [NoCallResult EXCEPT !.raised = TRUE]
                     ELSE [NoCallResult EXCEPT
                             !.params = estimate_parameters(callModel)]
    /\ UNCHANGED <<cfg, callModel, selVars, pipeVars, keepVars>>

\* calculator.calculate_ram_requirements(fileSize, quantFormat) on the size
\* and format of callModel (an int and a str, as the signature asks)
CallRam ==
    /\ callOp = "none"
    /\ callModel.sizeKind = "int" /\ callModel.fmtKind = "str"
    /\ callOp' = "ram"
    /\ callResult' = [NoCallResult EXCEPT
                        !.ram = calculate_ram_requirements(cfg, callModel.fileSize,
                                                           callModel.quantFormat)]
    /\ UNCHANGED <<cfg, callModel, selVars, pipeVars, keepVars>>

\* calculator.calculate_cpu_requirements(estimated_params, fileSize)
CallCpu ==
    /\ callOp = "none"
    /\ callModel.sizeKind = "int"
    /\ callOp' = "cpu"
    /\ \E p \in CallParams :
          callResult' = [NoCallResult EXCEPT
                           !.params = p,
                           !.cpu = calculate_cpu_requirements(cfg, p,
                                                              callModel.fileSize)]
    /\ UNCHANGED <<cfg, callModel, selVars, pipeVars, keepVars>>

\* calculator.determine_gpu_requirement(estimated_params, fileSize, quantFormat)
\* on the size and format of callModel (an int and a str, as the signature asks)
CallGpu ==
    /\ callOp = "none"
    /\ callModel.sizeKind = "int" /\ callModel.fmtKind = "str"
    /\ callOp' = "gpu"
    /\ \E p \in CallParams :
          callResult' = [NoCallResult EXCEPT
                           !.params = p,
                           !.gpu = determine_gpu_requirement(cfg, p, callModel.fileSize,
                                                             callModel.quantFormat)]
    /\ UNCHANGED <<cfg, callModel, selVars, pipeVars, keepVars>>

NextCall ==
    \/ CallGpu
    \/ CallClassify
    \/ CallRequirements
    \/ CallEstimate
    \/ CallRam
    \/ CallCpu

SpecCall == InitCall /\ [][NextCall]_vars

----------------------------------------------------------------------------
(* Direct calls of FilterConfig.validate on configurations that meet or    *)
(* break each constraint                                                   *)

ValidateConfigs ==
    {[FilterConfig EXCEPT
        !.min_size_bytes = msb, !.size_drop_threshold = sdt, !.min_downloads = md,
        !.trusted_uploaders = tu, !.finetune_patterns = fp, !.ram_multiplier = rm,
        !.quantization_ram_reduction = qrr, !.small_model_threshold = smt,
        !.medium_model_threshold = mmt, !.large_model_threshold = lmt,
        !.gpu_required_threshold = grt, !.default_os_support = dos] :
        msb \in {0, 100},
        sdt \in {Rat(0, 1), Rat(5, 100), Rat(1, 1)},
        md \in {-1, 0, 100},
        tu \in {<<>>, DefaultTrustedUploaders},
        fp \in {<<>>, DefaultFinetunePatterns},
        rm \in {Rat(0, 1), Rat(2, 1)},
        qrr \in {Rat(-1, 10), Rat(0, 1), Rat(3, 10), Rat(1, 1), Rat(11, 10)},
        smt \in {0, 2000},
        mmt \in {2000, 7000},
        lmt \in {7000, 13000},
        grt \in {0, 13000},
        dos \in {<<>>, DefaultOsSupport}}

InitValidate ==
    /\ cfg \in ValidateConfigs
    /\ callModel = NoEntry
    /\ callOp = "none"
    /\ callResult = NoCallResult
    /\ PipeIdle /\ SelIdle /\ KeepIdle

\* cfg.validate()
CallValidate ==
    /\ callOp = "none"
    /\ callOp' = "validate"
    /\ callResult' = [NoCallResult EXCEPT !.messages = validate(cfg)]
    /\ UNCHANGED <<cfg, callModel, selVars, pipeVars, keepVars>>

NextValidate == CallValidate

SpecValidate == InitValidate /\ [][NextValidate]_vars

----------------------------------------------------------------------------
(* The three kinds of call side by side: a pipeline run on a batch of at    *)
(* most one record, a selector call on a short list of the scenario's       *)
(* variants, a classifier or calculator call on one entry                   *)

FrameVariants == Range(ScenarioVariants) \cup OddDownloads

\* file sizes of the entries handed to the classifier and the calculator
FrameSizes == {-5, 0, 4096, 70000}

InitFrame ==
    \/ Init /\ raw_models \in InvalidConfigBatches
    \/ /\ cfg = FilterConfig
       /\ selBase \in SelBases
       /\ selVariants \in SeqsUpTo(FrameVariants, MaxVariants)
       /\ selOp = "none"
       /\ selResult = [raised |-> FALSE, list |-> <<>>]
       /\ PipeIdle /\ CallIdle /\ KeepIdle
    \/ InitCall /\ callModel.fileSize \in FrameSizes

NextFrame == Next \/ NextSel \/ NextCall

SpecFrame == InitFrame /\ [][NextFrame]_vars

----------------------------------------------------------------------------
(* Properties of the selector *)

IsSizeDescending(s) ==
    \A i \in 1..Len(s) : \A j \in i..Len(s) : s[i].fileSize >= s[j].fileSize

SelReturned(op) == selOp = op /\ ~selResult.raised

\* The variants of the returned list (the base entry, when given, comes first)
KeptVariants ==
    IF selOp = "select" /\ selBase # NoEntry THEN Tail(selResult.list)
    ELSE selResult.list

\* A call whose kept variants are the subject of the ordering claims:
\* select_variants_for_group on any list, filter_quantized_variants on a
\* size-descending one
SelOrdered ==
    \/ SelReturned("select")
    \/ SelReturned("filter") /\ IsSizeDescending(selVariants)

InScenario == selOp = "select" /\ selBase = ScenarioBase /\ selVariants = ScenarioVariants

\* C1 (as stated): in the scenario group select_variants_for_group returns
\* exactly [F16, Q4_K_M, Q2_K].
C1_Original ==
    InScenario => selResult.list = <<ScenarioBase, ScenarioQ4, ScenarioQ2>>

\* C1 (amended): in the scenario group, under the default min_size_bytes,
\* select_variants_for_group returns exactly [F16, Q8_0, Q4_K_M]: Q8_0 is the
\* size anchor, Q4_K_M takes the trusted bypass, Q2_K (60MB) is below the
\* minimum size.
C1_Scenario ==
    InScenario =>
        /\ ~selResult.raised
        /\ selResult.list = <<ScenarioBase, ScenarioQ8, ScenarioQ4>>

C1_Witness == InScenario /\ Len(selResult.list) = 3

\* C2 (as stated): the kept variants are strictly decreasing in file size.
C2_Original ==
    SelOrdered =>
        \A i \in 1..Len(KeptVariants) : \A j \in (i + 1)..Len(KeptVariants) :
            KeptVariants[i].fileSize > KeptVariants[j].fileSize

\* C2 (amended): the kept variants are non-increasing in file size in the
\* order of the result: no kept variant is larger than one kept before it
\* (equal sizes can both be kept).
C2_NonIncreasing ==
    SelOrdered =>
        \A i \in 1..Len(KeptVariants) : \A j \in (i + 1)..Len(KeptVariants) :
            KeptVariants[i].fileSize >= KeptVariants[j].fileSize

C2_Witness ==
    /\ SelReturned("select")
    /\ Len(KeptVariants) >= 2
    /\ KeptVariants[1].fileSize = KeptVariants[2].fileSize

\* The three reasons of the claim for keeping k[i+1] after k[1..i]
TrustedReason(c, v) ==
    is_trusted_uploader(c, v) /\ v.dlKind = "int" /\ v.downloadCount >= 50

FamilyReason(c, v, earlier) ==
    /\ is_different_quantization_family(v, earlier)
    /\ v.dlKind = "int" /\ v.downloadCount >= 2 * c.min_downloads

\* 1 - size(v)/size(prev) > size_drop_threshold (undefined, hence not true,
\* when size(prev) = 0)
DropReason(c, v, prev) ==
    /\ prev.fileSize # 0
    /\ (prev.fileSize - v.fileSize) * c.size_drop_threshold.den
           > c.size_drop_threshold.num * prev.fileSize

ConsecutiveJustified(c, k, zeroAllowed) ==
    \A i \in 1..(Len(k) - 1) :
        \/ TrustedReason(c, k[i + 1])
        \/ FamilyReason(c, k[i + 1], SubSeq(k, 1, i))
        \/ DropReason(c, k[i + 1], k[i])
        \/ zeroAllowed /\ k[i].fileSize = 0

FilterOnDescending == SelReturned("filter") /\ IsSizeDescending(selVariants)

----------------------------------------------------------------------------
(* Properties of the pipeline *)

GroupKeyOf(m) == get_base_model_group(cfg, m)

\* the base / full-precision candidates of a group, and those among the
\* entries the per-group selection kept
GroupCandidates(g) == SelectSeq(g.models, IsBaseCandidate)

RetainedCandidates(g, out) ==
    SelectSeq(out, LAMBDA m : IsBaseCandidate(m) /\ GroupKeyOf(m) = g.key)

AfterSelection == pc = "hardware"

\* C4: after per-group selection every group retains at most one
\* full-precision or explicitly-base entry, the retained one is a candidate of
\* the group of maximal file size, and no other candidate is in the output.
C4_OneBasePerGroup ==
    AfterSelection =>
        \A i \in 1..Len(model_groups) :
            LET g == model_groups[i]
                kept == RetainedCandidates(g, models)
            IN  /\ Len(kept) <= 1
                /\ (GroupCandidates(g) # <<>>) => Len(kept) = 1
                /\ \A k \in 1..Len(kept) :
                      /\ kept[k] \in Range(GroupCandidates(g))
                      /\ \A c \in Range(GroupCandidates(g)) :
                            c.fileSize <= kept[k].fileSize

C4_Witness ==
    /\ AfterSelection
    /\ \E i \in 1..Len(model_groups) :
          LET c == GroupCandidates(model_groups[i])
          IN  /\ Len(c) >= 2
              /\ c[1].fileSize < c[2].fileSize
              /\ Len(RetainedCandidates(model_groups[i], models)) = 1

Returned == pc = "done" /\ result.returned

HasCompleteProfile(m) ==
    /\ m.hw.present
    /\ m.hw.minRamGB \in {8, 16, 32, 64, 128}
    /\ m.hw.minCpuCores \in {4, 6, 8, 12, 16}
    /\ m.hw.gpuRequired \in BOOLEAN
    /\ m.hw.osSupported # <<>>

\* C5: every entry in the output of filter_models carries a complete
\* Hardware Profile (RAM and CPU buckets, GPU flag, non-empty OS list).
C5_CompleteProfile ==
    Returned => \A i \in 1..Len(result.filtered_models) :
                    HasCompleteProfile(result.filtered_models[i])

\* C6: with a configuration that validate() rejects, filter_models performs
\* no curation and returns no curated entries.
C6_RefusesInvalidConfig ==
    (validate(cfg) # <<>>) =>
        /\ pc \in {"extract", "done"}
        /\ result.filtered_models = <<>>

\* descriptors of the batch that yield a File Entry, and items that yield none
WellFormedFiles ==
    {<<i, j>> \in (1..Len(raw_models)) \X (1..(MaxSiblings + 1)) :
        /\ raw_models[i].kind = "dict"
        /\ j <= Len(raw_models[i].siblings)
        /\ raw_models[i].siblings[j].rfilename # NoneName
        /\ EndsWithGguf(raw_models[i].siblings[j].rfilename)
        /\ raw_models[i].siblings[j].sizeKind = "int"}

MalformedItems ==
    {<<i, j>> \in (1..Len(raw_models)) \X (0..(MaxSiblings + 1)) :
        \/ j = 0 /\ raw_models[i].kind # "dict"
        \/ /\ j >= 1 /\ j <= Len(raw_models[i].siblings)
           /\ \/ raw_models[i].siblings[j].rfilename = NoneName
              \/ /\ EndsWithGguf(raw_models[i].siblings[j].rfilename)
                 /\ raw_models[i].siblings[j].sizeKind # "int"}

EntryOfFile(i, j) ==
    convert_to_expected_format(raw_models[i], raw_models[i].siblings[j])[1]

\* C7: after extraction exactly the malformed items are missing, each has
\* its error string, and every other descriptor has been extracted.
C7_PerItemSkip ==
    (pc = "small") =>
        /\ \A f \in WellFormedFiles : EntryOfFile(f[1], f[2]) \in Range(models)
        /\ Len(models) = Cardinality(WellFormedFiles)
        /\ Len(errors) = Cardinality(MalformedItems)

\* the call went through the except clause of filter_models
ExceptionCaught == pc = "done" /\ errors # <<>> /\ Last(errors) = FilteringFailed

\* C8: every call of filter_models returns a FilterResult; when an exception
\* reached the top level the result has no entries, filtered_count 0 and the
\* accumulated error messages followed by the failure.
C8_FailedResult ==
    /\ (pc = "done") => result.returned
    /\ ExceptionCaught =>
          /\ result.filtered_models = <<>>
          /\ result.filtered_count = 0
          /\ result.errors =
                 Append(extract_gguf_models(raw_models, <<>>, <<>>).errors,
                        FilteringFailed)

C8_Witness ==
    /\ ExceptionCaught
    /\ result.processing_report.total_processed >= 2
    /\ result.filtered_models = <<>>

C8_WitnessAccumulated == ExceptionCaught /\ Len(result.errors) >= 2

SecondCallDone == pc = "done" /\ run = 2

\* C9 (as stated): two calls on the same batch give identical results,
\* entries and every field of the report.
C9_Original == SecondCallDone => result = firstResult

WithoutTime(res) ==
    [res EXCEPT !.processing_report.processing_time_seconds = 0]

\* C9 (amended): two calls on the same batch give the same entries in the
\* same order, the same error list and the same report except for
\* processing_time_seconds, which is the elapsed wall-clock time of the call.
C9_IdempotentButTime == SecondCallDone => WithoutTime(result) = WithoutTime(firstResult)

C9_Witness ==
    /\ SecondCallDone
    /\ Len(result.filtered_models) >= 2
    /\ result.processing_report.model_group_stats # <<>>
    /\ result.processing_report.processing_time_seconds
           # firstResult.processing_report.processing_time_seconds

CountersZero(rep) ==
    /\ rep.total_processed = 0 /\ rep.total_kept = 0 /\ rep.total_removed = 0
    /\ rep.small_models_removed = 0 /\ rep.finetuned_removed = 0
    /\ rep.quantization_variants_removed = 0
    /\ rep.variants_removed_by_size = 0 /\ rep.variants_removed_by_uploader = 0
    /\ rep.variants_removed_by_downloads = 0
    /\ rep.base_models_kept = 0 /\ rep.quantized_variants_kept = 0
    /\ rep.trusted_uploader_variants_kept = 0

\* C10: on an empty batch filter_models returns no entries, a report with
\* every counter at zero and no group statistics, and an empty error list.
C10_EmptyBatch ==
    (raw_models = <<>> /\ pc = "done") =>
        /\ result.returned
        /\ result.filtered_models = <<>>
        /\ CountersZero(result.processing_report)
        /\ result.processing_report.model_group_stats = <<>>
        /\ result.errors = <<>>
        /\ result.processing_report.errors = <<>>

C10_Witness == raw_models = <<>> /\ pc = "done" /\ result.returned

----------------------------------------------------------------------------
(* Properties of the classifier and of the hardware calculator *)

Classified == callOp = "classify" /\ ~callResult.raised

CallWords == Range(NameWords(callModel.modelName)) \cup Range(LinkWords(callModel))

\* C11: for every entry is_base_model(e) is true exactly when is_finetuned(e)
\* is false: a fine-tuned entry is never base, and an entry with no fine-tune
\* signal is base whether or not a base pattern or indicator matches.
C11_BaseIffNotFinetuned ==
    Classified => (callResult.base <=> ~callResult.finetuned)

C11_Witness ==
    /\ Classified
    /\ ~callResult.finetuned /\ callResult.base
    /\ ~MatchesBasePattern(CallWords) /\ ~MatchesBaseIndicator(CallWords)

C11_WitnessFinetuned ==
    /\ Classified
    /\ callResult.finetuned /\ ~callResult.base
    /\ MatchesBasePattern(CallWords)

RequirementsReturned == callOp = "requirements"

\* the default profile as the claim words it: 3x ladder {8,16,32,64} on the
\* size clamped to at least 1 GB (an unusable size counts as 1 GB), 8 cores,
\* GPU required, the default OS list
ClampedSize(model) ==
    IF model.sizeKind = "int" /\ model.fileSize >= 1024 THEN model.fileSize ELSE 1024

DefaultRam(model) ==
    LET x == 3 * ClampedSize(model)
    IN  CASE x <= 8 * 1024  -> 8
          [] x <= 16 * 1024 -> 16
          [] x <= 32 * 1024 -> 32
          [] OTHER          -> 64

DefaultProfile(model) ==
    [present |-> TRUE, minRamGB |-> DefaultRam(model), minCpuCores |-> 8,
     gpuRequired |-> TRUE, osSupported |-> cfg.default_os_support]

\* C12: calculate_requirements returns, for every entry, the entry with a
\* Hardware Profile added and nothing else changed; when the size is negative
\* or not a number, or the name is None or not a string (an internal step
\* fails), the profile is exactly the default one.
C12_TotalWithDefault ==
    RequirementsReturned =>
        /\ ~callResult.raised
        /\ callResult.entry.hw.present
        /\ [callResult.entry EXCEPT !.hw = NoHw] = callModel
        /\ RequirementsFailed(callModel) =>
               callResult.entry.hw = DefaultProfile(callModel)

C12_Witness ==
    /\ RequirementsReturned
    /\ callModel.nameKind = "none" /\ callModel.sizeKind = "int"
    /\ callModel.fileSize > 4096
    /\ callResult.entry.hw.minRamGB = 16 /\ callResult.entry.hw.minCpuCores = 8

C12_WitnessBadSize ==
    /\ RequirementsReturned
    /\ callModel.sizeKind = "other" /\ callModel.nameKind = "str"
    /\ callResult.entry.hw.minRamGB = 8 /\ callResult.entry.hw.gpuRequired

\* file_size_GB x ram_multiplier (x (1 - quantization_ram_reduction) for an
\* efficient format) as a fraction of MiB counts: <<numerator, denominator>>
BaseRam(size, fmt) ==
    LET m == cfg.ram_multiplier
        r == cfg.quantization_ram_reduction
    IN  IF is_efficient_quantization(fmt)
        THEN <<size * m.num * (r.den - r.num), 1024 * m.den * r.den>>
        ELSE <<size * m.num, 1024 * m.den>>

\* the smallest of 8, 16, 32, 64 not below x, 128 when there is none
SmallestBucket(x) ==
    LET fits == {b \in {8, 16, 32, 64} : x[1] <= b * x[2]}
    IN  IF fits = {} THEN 128
        ELSE CHOOSE b \in fits : \A b2 \in fits : b <= b2

\* C13: calculate_ram_requirements returns the smallest bucket of
\* {8,16,32,64,128} not below file_size_GB x ram_multiplier (reduced for
\* efficient formats), capped at 128, for every size including 0 and
\* negative ones; calculate_cpu_requirements returns a value of
\* {4,6,8,12,16} for every size and every parameter count, known or not.
C13_Buckets ==
    /\ (callOp = "ram") =>
          /\ callResult.ram \in {8, 16, 32, 64, 128}
          /\ callResult.ram = SmallestBucket(BaseRam(callModel.fileSize,
                                                      callModel.quantFormat))
    /\ (callOp = "cpu") => callResult.cpu \in {4, 6, 8, 12, 16}

C13_Witness ==
    /\ callOp = "ram"
    /\ is_efficient_quantization(callModel.quantFormat)
    /\ callModel.fileSize > 5 * 1024 /\ callModel.fileSize < 6 * 1024
    /\ callResult.ram = 8

C13_WitnessCap == callOp = "ram" /\ callResult.ram = 128

C13_WitnessCpu ==
    /\ callOp = "cpu" /\ ~callResult.params.known
    /\ callModel.fileSize < 0 /\ callResult.cpu = 4

\* The entry of the scenario: display name "Llama-2-7B-GGUF", 4.2 x 10^9
\* bytes (between 4005 and 4006 MiB), a Q4 format, default configuration
InHwScenario ==
    /\ cfg = FilterConfig
    /\ callModel.nameKind = "str" /\ callModel.modelName = "Llama-2-7B-GGUF"
    /\ callModel.sizeKind = "int" /\ callModel.fileSize \in {4005, 4006}
    /\ callModel.fmtKind = "str" /\ callModel.quantFormat = "Q4_K_M"

SevenBillion == [known |-> TRUE, num |-> 7 * 1000, den |-> 1]

HwScenarioResult(ramGB) ==
    /\ (callOp = "estimate") => ~callResult.raised /\ callResult.params = SevenBillion
    /\ (callOp = "ram") => callResult.ram = ramGB
    /\ (callOp = "cpu" /\ callResult.params = SevenBillion) => callResult.cpu = 6
    /\ (callOp = "requirements") =>
          /\ callResult.entry.hw.minRamGB = ramGB
          /\ callResult.entry.hw.minCpuCores = 6

\* C16 (as stated): for the scenario entry estimate_parameters returns
\* 7 x 10^9, calculate_ram_requirements the 16 GB bucket and
\* calculate_cpu_requirements 6 cores.
C16_Original == InHwScenario => HwScenarioResult(16)

\* C16 (amended): for the scenario entry estimate_parameters returns
\* 7 x 10^9, calculate_ram_requirements the 8 GB bucket (3.91 GB x 2 x 0.7 =
\* 5.48 GB) and calculate_cpu_requirements 6 cores.
C16_Scenario == InHwScenario => HwScenarioResult(8)

C16_Witness == InHwScenario /\ callOp = "requirements" /\ callResult.entry.hw.present

----------------------------------------------------------------------------
(* Properties of grouping, of the per-group selection and of the counters *)

\* the number of positions of a list that hold entry e
CountIn(e, list) == Cardinality({i \in 1..Len(list) : list[i] = e})

RECURSIVE SumSeq(_)
SumSeq(nums) == IF nums = <<>> THEN 0 ELSE Head(nums) + SumSeq(Tail(nums))

SumOver(list, f(_)) == SumSeq([i \in 1..Len(list) |-> f(list[i])])

Grouped == pc = "variants"

GroupLen(g) == Len(g.models)
StatOriginal(st) == st.original

\* C15: grouping partitions the entries that survive the size filter and
\* the classification: every entry is in exactly one group, the one whose
\* key is get_base_model_group of the entry, nothing is lost or duplicated,
\* and the 'original' counts of the report sum to the number of survivors.
C15_GroupingPartitions ==
    /\ Grouped =>
          /\ \A i, j \in 1..Len(model_groups) :
                 model_groups[i].key = model_groups[j].key => i = j
          /\ \A i \in 1..Len(model_groups) :
                 /\ model_groups[i].models # <<>>
                 /\ \A m \in Range(model_groups[i].models) :
                        GroupKeyOf(m) = model_groups[i].key
          /\ \A m \in Range(models) :
                 LET countIn(g) == CountIn(m, g.models)
                 IN  SumOver(model_groups, countIn) = CountIn(m, models)
          /\ SumOver(model_groups, GroupLen) = Len(models)
    /\ AfterSelection =>
          /\ Len(report.model_group_stats) = Len(model_groups)
          /\ \A i \in 1..Len(model_groups) :
                 /\ report.model_group_stats[i].group = model_groups[i].key
                 /\ report.model_group_stats[i].original = Len(model_groups[i].models)
          /\ SumOver(report.model_group_stats, StatOriginal)
                 = report.total_processed - report.small_models_removed
                       - report.finetuned_removed

C15_Witness ==
    /\ AfterSelection
    /\ Len(model_groups) >= 2
    /\ \E i \in 1..Len(model_groups) : Len(model_groups[i].models) >= 2
    /\ report.finetuned_removed + report.small_models_removed = 0

C15_WitnessRemoved ==
    /\ Grouped /\ Len(model_groups) >= 1
    /\ report.finetuned_removed >= 1

\* the call returned through the normal path
Succeeded == pc = "done" /\ result.returned /\ ~ExceptionCaught

\* C19: after every successful run total_processed = total_kept +
\* total_removed and total_removed = small_models_removed +
\* finetuned_removed + quantization_variants_removed.
C19_CountersAddUp ==
    Succeeded =>
        LET rep == result.processing_report
        IN  /\ rep.total_processed = rep.total_kept + rep.total_removed
            /\ rep.total_removed = rep.small_models_removed + rep.finetuned_removed
                                       + rep.quantization_variants_removed

\* the groups stage 4 builds from the batch
BatchGroups ==
    LET ex == extract_gguf_models(raw_models, <<>>, <<>>)
        large == remove_small_models(cfg, ex.models, ProcessingReport).models
        base == remove_finetuned_models(cfg, large, ProcessingReport).models
    IN  group_models_by_base(cfg, base, <<>>)

\* the call ended in the except clause because the selection of a group raised
SelectionRaised ==
    /\ ExceptionCaught
    /\ ~extract_gguf_models(raw_models, <<>>, <<>>).fatal

\* what the per-group selection yields: the set of kept entries, the
\* counters it increments and the per-group statistics
SelectionCounters(rep) ==
    <<rep.base_models_kept, rep.quantized_variants_kept,
      rep.quantization_variants_removed, rep.trusted_uploader_variants_kept>>

Outcome(kept, counters, stats) == [kept |-> kept, counters |-> counters, stats |-> stats]

\* the sequential pass of the code, read off the state it left
SequentialOutcome ==
    Outcome(Range(models), SelectionCounters(report), Range(report.model_group_stats))

\* the same pass over the groups taken in another order
OrderOutcome(groups) ==
    LET r == filter_variants_in_groups(cfg, groups, <<>>, ProcessingReport)
    IN  Outcome(IF r.raised THEN {} ELSE Range(r.final_models),
                SelectionCounters(r.report), Range(r.report.model_group_stats))

OrdersOf(n) == {p \in [1..n -> 1..n] : \A i, j \in 1..n : p[i] = p[j] => i = j}

Permuted(groups, p) == [i \in 1..Len(groups) |-> groups[p[i]]]

\* every group processed on its own, result lists and counters merged
MergedOutcome(groups) ==
    LET per == [i \in 1..Len(groups) |->
                   FilterGroup(cfg, groups[i], <<>>, ProcessingReport)]
        counter(k) == SumSeq([i \in 1..Len(groups) |->
                                 SelectionCounters(per[i].report)[k]])
    IN  Outcome(UNION {Range(per[i].final_models) : i \in 1..Len(groups)},
                <<counter(1), counter(2), counter(3), counter(4)>>,
                UNION {Range(per[i].report.model_group_stats) : i \in 1..Len(groups)})

OrderIndependent ==
    /\ \A p \in OrdersOf(Len(BatchGroups)) :
           OrderOutcome(Permuted(BatchGroups, p)) = SequentialOutcome
    /\ MergedOutcome(BatchGroups) = SequentialOutcome

----------------------------------------------------------------------------
(* Further properties of the selector *)

MeetsMinSize(v) == v.fileSize >= cfg.min_size_bytes

BaseOnly == IF selBase # NoEntry THEN <<selBase>> ELSE <<>>

\* C17: select_variants_for_group returns the base entry, when given, as
\* the first element, followed by surviving variants (entries of the
\* caller's list of at least the minimum size, the largest of them among
\* them) in size-descending order; with an empty variant list, or none of the
\* minimum size, the result is exactly [base], or [] without a base.
C17_BaseFirst ==
    SelReturned("select") =>
        /\ selResult.list = BaseOnly \o KeptVariants
        /\ IsSizeDescending(KeptVariants)
        /\ \A v \in Range(KeptVariants) : v \in Range(selVariants) /\ MeetsMinSize(v)
        /\ \A v \in Range(selVariants) :
               MeetsMinSize(v) =>
                   /\ KeptVariants # <<>>
                   /\ KeptVariants[1].fileSize >= v.fileSize
        /\ (\A v \in Range(selVariants) : ~MeetsMinSize(v)) => selResult.list = BaseOnly

C17_Witness ==
    /\ SelReturned("select")
    /\ selBase # NoEntry
    /\ Len(selVariants) >= 2
    /\ selVariants[1].fileSize < selVariants[2].fileSize
    /\ Len(selResult.list) = 3
    /\ selResult.list[2] = selVariants[2]

C17_WitnessBaseOnly ==
    /\ SelReturned("select")
    /\ selBase # NoEntry /\ selVariants # <<>>
    /\ selResult.list = <<selBase>>

RECURSIVE IsSubsequence(_, _)
IsSubsequence(a, b) ==
    IF a = <<>> THEN TRUE
    ELSE IF b = <<>> THEN FALSE
    ELSE IF Head(a) = Head(b) THEN IsSubsequence(Tail(a), Tail(b))
    ELSE IsSubsequence(a, Tail(b))

IsPrefix(a, b) == Len(a) <= Len(b) /\ a = SubSeq(b, 1, Len(a))

\* the variants kept among the first n of the input
KeptAmongFirst(n) == filter_quantized_variants(cfg, SubSeq(selVariants, 1, n)).list

\* C20: filter_quantized_variants returns a subsequence of its input in
\* input order; the decision on each variant is should_keep_variant against
\* the variants kept before it and is never revisited (what is kept among
\* the first n is a prefix of the result); the first variant of a non-empty
\* input is kept whatever its uploader, download count or format.
C20_GreedySinglePass ==
    SelReturned("filter") =>
        /\ IsSubsequence(selResult.list, selVariants)
        /\ (selVariants # <<>>) =>
               selResult.list # <<>> /\ selResult.list[1] = selVariants[1]
        /\ \A n \in 1..Len(selVariants) :
               LET before == KeptAmongFirst(n - 1)
                   upto == KeptAmongFirst(n)
               IN  /\ IsPrefix(upto, selResult.list)
                   /\ upto = IF should_keep_variant(cfg, selVariants[n], before) = "true"
                             THEN Append(before, selVariants[n])
                             ELSE before

C20_Witness ==
    /\ SelReturned("filter")
    /\ Len(selVariants) >= 2
    /\ ~is_trusted_uploader(cfg, selVariants[1])
    /\ selVariants[1].dlKind = "int" /\ selVariants[1].downloadCount < cfg.min_downloads
    /\ selResult.list = <<selVariants[1]>>

C20_WitnessOddFirst ==
    /\ SelReturned("filter")
    /\ Len(selVariants) >= 2
    /\ selVariants[1].dlKind = "str"
    /\ Len(selResult.list) = 2

----------------------------------------------------------------------------
(* Frame *)

C18_WitnessPipeline ==
    /\ Succeeded
    /\ result.filtered_models # <<>>
    /\ \A i \in 1..Len(result.filtered_models) : result.filtered_models[i].hw.present

C18_WitnessRequirements ==
    /\ callOp = "requirements"
    /\ callResult.entry.hw.present /\ ~callModel.hw.present

----------------------------------------------------------------------------
(* Properties of should_keep_variant *)

\* should_keep_variant has been called with a non-empty kept list
KeepCalled == keepOp = "keep" /\ keepKept # <<>>

\* the download count is a number, or absent or None (read as 0)
CountReadable == keepVariant.dlKind \in {"int", "none", "missing"}

\* the uploader of keepVariant is a name of the trusted list, letter case aside
TrustedIgnoringCase ==
    \E i \in 1..Len(cfg.trusted_uploaders) :
        Lower(cfg.trusted_uploaders[i]) = Lower(keepVariant.uploader)

\* the trusted fast path returns True: trusted uploader, at least 50 downloads
TakesFastPath ==
    /\ TrustedIgnoringCase
    /\ CountReadable /\ DownloadCountOrZero(keepVariant) >= 50

\* 1 - size(keepVariant)/size(prev) as a fraction, compared with the threshold
DropAbove(prev) ==
    (prev.fileSize - keepVariant.fileSize) * cfg.size_drop_threshold.den
        > cfg.size_drop_threshold.num * prev.fileSize

DropEquals(prev) ==
    (prev.fileSize - keepVariant.fileSize) * cfg.size_drop_threshold.den
        = cfg.size_drop_threshold.num * prev.fileSize

\* the family of keepVariant is the family of a kept variant
FamilyRepresented ==
    /\ FamilyOf(Upper(keepVariant.quantFormat)) # ""
    /\ \E k \in 1..Len(keepKept) :
           FamilyOf(Upper(keepKept[k].quantFormat)) = FamilyOf(Upper(keepVariant.quantFormat))

\* C21: with a non-empty kept list, a variant whose uploader is in the
\* trusted list (compared case-insensitively) and whose download count is at
\* least 50 is kept, whatever the configured download minimum, its size
\* against the last kept variant and its quantization family.
C21_TrustedFastPath ==
    (KeepCalled /\ TakesFastPath) => keepResult = "true"

\* a trusted uploader written in another case than in the list, fewer
\* downloads than the minimum, no size drop, a family already kept
C21_Witness ==
    /\ KeepCalled /\ TakesFastPath
    /\ keepVariant.uploader \notin Range(cfg.trusted_uploaders)
    /\ keepVariant.downloadCount < cfg.min_downloads
    /\ Last(keepKept).fileSize # 0 /\ ~DropAbove(Last(keepKept)) /\ ~DropEquals(Last(keepKept))
    /\ FamilyRepresented
    /\ keepResult = "true"

\* C22: with a non-empty kept list, a variant that does not take the trusted
\* fast path (untrusted, or trusted with fewer than 50 downloads) and whose
\* download count is below the configured minimum is never kept, whatever
\* its size drop or family; an absent or None download count counts as 0.
C22_DownloadMinimum ==
    (/\ KeepCalled /\ CountReadable /\ ~TakesFastPath
     /\ DownloadCountOrZero(keepVariant) < cfg.min_downloads)
        => keepResult = "false"

\* an untrusted variant one download short, with a large size drop and a new family
C22_Witness ==
    /\ KeepCalled /\ ~TrustedIgnoringCase
    /\ keepVariant.dlKind = "int" /\ keepVariant.downloadCount = cfg.min_downloads - 1
    /\ Last(keepKept).fileSize # 0 /\ DropAbove(Last(keepKept))
    /\ ~FamilyRepresented
    /\ keepResult = "false"

\* a trusted variant below the lowered threshold, and a None download count
C22_WitnessTrustedNone ==
    /\ KeepCalled /\ TrustedIgnoringCase
    /\ keepVariant.dlKind = "none"
    /\ DropAbove(Last(keepKept))
    /\ keepResult = "false"

\* a candidate on which the size-drop test is run against a last kept
\* variant of non-zero size: not kept by the fast path, download minimum met
ReachesDropTest ==
    /\ KeepCalled /\ CountReadable /\ ~TakesFastPath
    /\ DownloadCountOrZero(keepVariant) >= cfg.min_downloads
    /\ Last(keepKept).fileSize # 0

\* C23: the size-drop test compares the candidate with the most recently
\* kept variant only: a candidate that meets the download minimum, whose
\* relative drop against the last kept variant is at most the threshold
\* (a drop equal to the threshold included) and whose family is already
\* represented is discarded, whatever its drop against the first kept variant.
C23_LastKeptComparator ==
    (ReachesDropTest /\ ~DropAbove(Last(keepKept)) /\ FamilyRepresented)
        => keepResult = "false"

\* C24: a variant that meets the download minimum and has no qualifying size
\* drop is kept exactly when its download count is at least twice the
\* configured minimum and its family is not the family of a kept variant; a
\* format of none of the eight families always counts as a different family.
C24_FamilyEscape ==
    (ReachesDropTest /\ ~DropAbove(Last(keepKept)) /\ ~DropEquals(Last(keepKept)))
        => /\ keepResult \in {"true", "false"}
           /\ keepResult = "true" <=>
                  /\ DownloadCountOrZero(keepVariant) >= 2 * cfg.min_downloads
                  /\ ~FamilyRepresented

----------------------------------------------------------------------------
(* Properties of the parameter estimate and of the GPU flag *)

\* estimate_parameters returned for an entry whose name holds no size token
\* (or no name at all) and whose size is a number (0 when the key is absent)
EstimatedFromSize ==
    /\ callOp = "estimate" /\ ~callResult.raised
    /\ callModel.nameKind \in {"str", "missing"}
    /\ ParamToken(callModel.modelName) = 0
    /\ callModel.sizeKind \in {"int", "missing"}

\* C25: without a size token in the name, estimate_parameters returns none
\* exactly when file_size_GB / 1.5 is below 0.5 (below 0.75 GiB = 768 MiB, or
\* zero) and otherwise file_size_GB / 1.5 billions (in millions: MiB x 1000 /
\* 1536); a file of exactly 0.75 GiB yields 0.5 x 10^9, not none.
C25_SizeHeuristic ==
    EstimatedFromSize =>
        /\ ~callResult.params.known <=> callModel.fileSize * 2 < 1536
        /\ callResult.params.known =>
               /\ callResult.params.num = callModel.fileSize * 1000
               /\ callResult.params.den = 1536

GpuCalled == callOp = "gpu"

\* the parameter count handed over is unknown or below gpu_required_threshold
BelowGpuThreshold ==
    \/ ~callResult.params.known
    \/ callResult.params.num < cfg.gpu_required_threshold * callResult.params.den

\* the format starts (letter case aside) with Q4, Q3, Q2, IQ4, IQ3 or IQ2
EfficientPrefix ==
    Upper(callModel.quantFormat) \in {"Q4_K_M", "Q4_K_S", "Q4_0", "Q3_K_M", "Q2_K",
                                      "IQ4_XS", "IQ3_XXS", "IQ2_XXS"}

C26_WitnessThreshold ==
    /\ GpuCalled /\ callResult.gpu
    /\ EfficientPrefix /\ callModel.fileSize = 100
    /\ callResult.params.known /\ callResult.params.num = 13000

\* an efficient format just above 4GB, parameter count unknown
C26_WitnessAboveFour ==
    /\ GpuCalled /\ callResult.gpu
    /\ EfficientPrefix /\ callModel.fileSize = 4097
    /\ ~callResult.params.known

----------------------------------------------------------------------------
(* Properties of FilterConfig.validate *)

Validated == callOp = "validate"

\* the constraints the claim lists, each with the message validate gives
ListedConstraints(c) ==
    { <<RatLt(Rat(0, 1), c.size_drop_threshold) /\ RatLt(c.size_drop_threshold, Rat(1, 1)),
        "size_drop_threshold must be between 0 and 1">>,
      <<Len(c.trusted_uploaders) > 0, "trusted_uploaders list cannot be empty">>,
      <<Len(c.finetune_patterns) > 0, "finetune_patterns list cannot be empty">>,
      <<Len(c.default_os_support) > 0, "default_os_support list cannot be empty">>,
      <<RatLt(Rat(0, 1), c.ram_multiplier), "ram_multiplier must be positive">>,
      <<RatLe(Rat(0, 1), c.quantization_ram_reduction)
            /\ RatLe(c.quantization_ram_reduction, Rat(1, 1)),
        "quantization_ram_reduction must be between 0 and 1">>,
      <<c.small_model_threshold < c.medium_model_threshold,
        "medium_model_threshold must be greater than small_model_threshold">>,
      <<c.medium_model_threshold < c.large_model_threshold,
        "large_model_threshold must be greater than medium_model_threshold">>,
      <<c.gpu_required_threshold > 0, "gpu_required_threshold must be positive">> }

\* the constraints validate enforces besides
FurtherConstraints(c) ==
    { <<c.min_size_bytes > 0, "min_size_bytes must be positive">>,
      <<c.min_downloads >= 0, "min_downloads must be non-negative">>,
      <<c.small_model_threshold > 0, "small_model_threshold must be positive">> }

\* the messages are exactly those of the violated constraints, each once
OneMessagePerViolation(constraints) ==
    LET violated == {k \in constraints : ~k[1]}
    IN  /\ Range(callResult.messages) = {k[2] : k \in violated}
        /\ Len(callResult.messages) = Cardinality(violated)

\* C27 (as stated): validate returns an empty list exactly when every listed
\* constraint holds, and otherwise one message per violated listed constraint;
\* the default configuration validates with no message.
C27_Original ==
    Validated =>
        /\ callResult.messages = <<>> <=> \A k \in ListedConstraints(cfg) : k[1]
        /\ OneMessagePerViolation(ListedConstraints(cfg))
        /\ (cfg = FilterConfig) => callResult.messages = <<>>

\* C27 (amended): validate returns an empty list exactly when every listed
\* constraint holds and, besides, min_size_bytes is positive, min_downloads is
\* not negative and small_model_threshold is positive; otherwise it returns
\* one message per violated constraint of these twelve; the default
\* configuration validates with no message.
C27_Validate ==
    Validated =>
        LET all == ListedConstraints(cfg) \cup FurtherConstraints(cfg)
        IN  /\ callResult.messages = <<>> <=> \A k \in all : k[1]
            /\ OneMessagePerViolation(all)
            /\ (cfg = FilterConfig) => callResult.messages = <<>>

\* several constraints violated at once, one message each
C27_Witness ==
    /\ Validated
    /\ cfg.default_os_support = <<>> /\ cfg.min_size_bytes = 0
    /\ cfg.medium_model_threshold <= cfg.small_model_threshold
    /\ Len(callResult.messages) >= 3

C27_WitnessDefault == Validated /\ cfg = FilterConfig /\ callResult.messages = <<>>

----------------------------------------------------------------------------
(* Properties of the output and of the groups of a pipeline run *)

\* an output entry as it was before the hardware fields were added
WithoutHardware(m) == [m EXCEPT !.hw = NoHw]

\* C28: the output of filter_models holds only entries the input supplied,
\* none of them twice: the output entries can be matched one to one with
\* (raw record, .gguf file) pairs of the input, each has a file size of at
\* least min_size_bytes, is classified base by is_base_model, and differs
\* from its extracted form only by the added hardware fields.
C28_OutputFromInput ==
    Returned =>
        LET out == result.filtered_models
            plain == [k \in 1..Len(out) |-> WithoutHardware(out[k])]
            extracted == [f \in WellFormedFiles |-> EntryOfFile(f[1], f[2])]
        IN  \A k \in 1..Len(out) :
                LET sources == {f \in DOMAIN extracted : extracted[f] = plain[k]}
                IN  /\ sources # {}
                    /\ CountIn(plain[k], plain) <= Cardinality(sources)
                    /\ out[k].fileSize >= cfg.min_size_bytes
                    /\ is_base_model(cfg, plain[k])
                    /\ out[k].hw.present

\* a run that returns an entry and leaves a fine-tuned one out
C28_Witness ==
    /\ Returned
    /\ Len(result.filtered_models) >= 1
    /\ \E f \in WellFormedFiles :
          /\ ~is_base_model(cfg, EntryOfFile(f[1], f[2]))
          /\ EntryOfFile(f[1], f[2]).fileSize >= cfg.min_size_bytes

\* a run on a record that lists the same file twice: both copies are returned
C28_WitnessTwice ==
    /\ Returned
    /\ \E k \in 1..Len(result.filtered_models) :
          CountIn(result.filtered_models[k], result.filtered_models) = 2

GroupVariants(g) == SelectSeq(g.models, LAMBDA m : ~IsBaseCandidate(m))

\* the entries of maximal file size of a list
LargestOf(list) ==
    {m \in Range(list) : \A x \in Range(list) : x.fileSize <= m.fileSize}

\* C29: per-group selection never eliminates a group: every group keeps its
\* largest base candidate or, without one, the size anchor (the largest) of
\* its variants; every per-group statistic has kept >= 1 and
\* 0 <= removed < original; the selector's minimum-size discard removes no
\* entry that passed the pipeline's size filter.
C29_NoGroupEliminated ==
    /\ \A i \in 1..Len(report.model_group_stats) :
          LET st == report.model_group_stats[i]
          IN  st.kept >= 1 /\ 0 <= st.removed /\ st.removed < st.original
    /\ AfterSelection =>
          /\ Len(report.model_group_stats) = Len(model_groups)
          /\ \A i \in 1..Len(model_groups) :
                LET g == model_groups[i]
                    anchors == IF GroupCandidates(g) # <<>>
                               THEN LargestOf(GroupCandidates(g))
                               ELSE LargestOf(GroupVariants(g))
                IN  /\ anchors \cap Range(models) # {}
                    /\ \A m \in Range(g.models) : m.fileSize >= cfg.min_size_bytes
                    /\ ValidVariants(cfg, GroupVariants(g)) = GroupVariants(g)

\* a group without base candidate whose only variant is untrusted and short
\* of downloads: it is kept as the size anchor
C29_Witness ==
    /\ AfterSelection
    /\ \E i \in 1..Len(model_groups) :
          LET g == model_groups[i]
          IN  /\ GroupCandidates(g) = <<>>
              /\ Len(g.models) = 1
              /\ ~is_trusted_uploader(cfg, g.models[1])
              /\ g.models[1].dlKind = "int"
              /\ g.models[1].downloadCount < cfg.min_downloads
              /\ g.models[1] \in Range(models)

\* a group that loses a variant and keeps the anchor
C29_WitnessRemoved ==
    /\ AfterSelection
    /\ \E i \in 1..Len(report.model_group_stats) :
          report.model_group_stats[i].removed >= 1

----------------------------------------------------------------------------
(* Properties of FilterResult.success and of the caller *)

\* filter_models has returned (process_data may have gone on since)
CallFinished == pc \in {"done", "raised", "written"}

\* no error recorded and at least one entry returned
CleanAndNonEmpty == result.errors = <<>> /\ Len(result.filtered_models) >= 1

\* C30: FilterResult.success is true exactly when the error list is empty
\* and at least one entry was returned; a run that recorded an error for a
\* skipped item and still returned entries, and a run that returned no entry
\* without any error, both report success = false, and process_data raises
\* on either instead of writing output.
C30_Success ==
    CallFinished =>
        /\ success(result) <=> CleanAndNonEmpty
        /\ (pc = "written") => CleanAndNonEmpty
        /\ (pc = "raised") => ~CleanAndNonEmpty

\* one item skipped with its error recorded, curated entries returned all the
\* same: success is false and process_data raised
C30_Witness ==
    /\ pc = "raised"
    /\ result.errors # <<>> /\ Last(result.errors) # FilteringFailed
    /\ Len(result.filtered_models) >= 1
    /\ ~success(result)

\* no error and no entry: process_data raised
C30_WitnessEmpty ==
    /\ pc = "raised"
    /\ result.errors = <<>> /\ result.filtered_models = <<>>
    /\ raw_models # <<>>

C30_WitnessWritten == pc = "written" /\ Len(result.filtered_models) >= 2

====
